---- MODULE Spec2Model ----
\* Model of the per-camera session client of docker-wyze-bridge
\* (app/wyzecam/iotc.py, class WyzeIOTCSession): the connect / authenticate /
\* disconnect life cycle over the vendor transport and the two frame loops,
\* run by one caller, one statement group per step.
EXTENDS Integers, Sequences, FiniteSets, TLC

\* ---------------------------------------------------------------- bounds
MaxHandle == 1
MaxErr == 2
MaxFrameSize == 4
MaxTick == 14
MaxSec == 8
MaxOps == 2
MaxFrames == 1
MaxWrites == 2
MaxLen == 2
PipeCap == 2
MaxCalls == 3
MaxSessions == 3
MaxStr == 3
MaxCams == 2
MaxIters == 3
MaxPurges == 3
MaxMsgs == 2
MaxSpawns == 3
MaxMtxCalls == 5

\* handles the transport hands out (>= 0) and its negative status codes
Handles == 0..MaxHandle
ErrCodes == (-MaxErr)..(-1)

\* ------------------------------------------- WyzeIOTCSessionState (IntEnum)
DISCONNECTED == 0
IOTC_CONNECTING == 1
AV_CONNECTING == 2
CONNECTED == 3
CONNECTING_FAILED == 4
AUTHENTICATING == 5
AUTHENTICATION_SUCCEEDED == 6
AUTHENTICATION_FAILED == 7

States == DISCONNECTED..AUTHENTICATION_FAILED

\* Python's None for the two Optional[c_int] handles; never a handle (>= 0)
\* and never a vendor status code.
None == -999

\* values of the connectionRes field of the auth reply
ConnectionRes == {"1", "2", "0"}

\* the shared stream_state counter read by should_stream
StreamStates == 0..2

VARIABLES
    state,          \* self.state
    session_id,     \* self.session_id
    av_chan_id,     \* self.av_chan_id
    pc,             \* position of the caller's thread inside the session's code
    fn,             \* the session method the caller invoked last
    in_enter,       \* the method runs as part of __enter__
    ret,            \* where the running _disconnect() returns to
    exc,            \* exception propagating out of (or raised in) the method
    exc_code,       \* the vendor code a TutkError carries
    calls,          \* transport calls the method has made so far, in order
    entry,          \* state and handles when the method was entered
    d_entry,        \* state and handles when _disconnect() was entered
    d_from,         \* Len(calls) when _disconnect() was entered
    inp,            \* the replies _auth() has received so far
    have_key_frame, \* local of recv_bridge_data
    camera,         \* self.camera: has a p2p_id, connects with dtls
    prev_fn,        \* the session method the caller invoked before fn
    late,           \* time.time() - self.frame_ts has reached connect_timeout
    pull,           \* what the last frame pull of the running loop gave
    frame,          \* the frame_info of the last frame pulled
    renegs,         \* update_frame_size_rate() calls of the current iteration
    key_since,      \* a keyframe was accepted since the last frame dropped for its size
    seen_key_frame, \* the running video loop has pulled a keyframe
    thread,         \* position of each thread that uses the session's control channel
    listeners,      \* control-channel listeners started and not yet stopped
    now,            \* time.time()
    frame_ts,       \* self.frame_ts
    sleep_buffer,   \* self._sleep_buffer
    preferred_frame_rate, \* self.preferred_frame_rate
    low_latency,    \* os.getenv("LOW_LATENCY") is set
    eff,            \* what the last synchronisation step did
    preferred_frame_size, \* self.preferred_frame_size
    ignore_res,     \* int(os.getenv("IGNORE_RES")), None when it is not set
    loop,           \* position of the video loop and of the audio loop in the pacing code
    loaded,         \* the _sleep_buffer each loop has read for the update it is making
    local_gap,      \* the local gap of each loop
    handled,        \* frames each loop has synchronised
    applied,        \* _sleep_buffer as it is when every update is applied whole
    writers,        \* the loops that have written each field
    stream_state,   \* self.stream_state.value, owned by the caller of the loops
    after,          \* frames each loop has yielded since the loops stopped being wanted
    ended,          \* how each loop has ended: "" while it has not
    sink,           \* position of the thread that runs recv_audio_pipe
    audio_pipe_ready, \* self.audio_pipe_ready
    fifo_exists,    \* the file /tmp/<pipe_name>_audio.pipe exists
    fd_open,        \* recv_audio_pipe holds the pipe open for writing
    fd_blocking,    \* the blocking mode of that descriptor
    reader,         \* the reading end: "none", "open" or "closed"
    data,           \* the bytes in the pipe, each <<frame, offset>>, oldest first
    written,        \* every byte the pipe has accepted, in order
    taken,          \* every byte read from the pipe, in order
    offered,        \* frames the audio sequence has given to recv_audio_pipe
    frame_len,      \* length of the frame recv_audio_pipe is writing
    dropped,        \* bytes of offered frames that were not written
    sink_exc,       \* the error that ended the for loop of recv_audio_pipe
    flushed,        \* what the last flush_pipe("audio") found and did
    initd,          \* WyzeIOTC.initd
    asked,          \* calls of initialize() and deinitialize() so far
    vendor,         \* the calls of WyzeIOTC into the vendor runtime, with their outcome
    phone_id,       \* phone_id of the account all streams are built with
    sessions,       \* the sessions WyzeIOTC.session has made: for a substream or not
    environ,        \* os.environ: the value of the variable asked for, Unset without one
    env_result,     \* env_bool as called since the variable was set: what it found and returned
    running,        \* WyzeApiBridge.running
    phase,          \* the bridge is "new", "running" or "stopped"
    api_auth,       \* WyzeApiBridge.api.auth
    mqtt_client,    \* WyzeApiBridge.mqtt_client
    cameras,        \* what api.get_cameras() returns: None or the number of cameras
    health,         \* the last call of health(): what it found and what it returned
    drift,          \* the video loop under a sustained gap: its frame, position and iterations
    purges_running, \* ffmpeg.purges_running: the thread registered for each base_path, None without one
    purge_threads,  \* the purge threads started so far: base_path and whether each still runs
    purge_log,      \* calls of purge_old and wait_for_purges, and what the last wait joined
    event_stream,   \* the bytes written to /tmp/mtx_event and not read yet
    event_buf,      \* RtspEvent.buf
    dispatched,     \* the messages RtspEvent has passed to log_event, in order
    event_log,      \* the messages written, the bytes read so far, and what the last read did
    sub_process,    \* MtxServer.sub_process: the process tracked, 0 for None
    procs,          \* every MediaMTX process spawned so far: "running" or "exited"
    mtx_log,        \* the last call on the server and the number of calls
    on_demand,      \* config.ON_DEMAND
    cam_env,        \* per camera: what the environment says of its streams
    stream_list,    \* the streams added to the stream manager, with their options
    mtx_paths,      \* how each path is registered with MediaMTX
    opt_log         \* the number of calls of setup_streams

\* bookkeeping of the frame loops
loop_vars == <<late, pull, frame, renegs, key_since, seen_key_frame>>

\* the threads that share the control channel
mux_vars == <<thread, listeners>>

\* the clock and the pacing fields
sync_vars == <<now, frame_ts, sleep_buffer, preferred_frame_rate, low_latency, eff>>

\* the stream settings, fixed when the session is constructed
cfg_vars == <<preferred_frame_size, ignore_res>>

\* the two loops inside the pacing code
race_vars == <<loop, loaded, local_gap, handled, applied, writers>>

\* the continuation predicate of the loops
stop_vars == <<stream_state, after, ended>>

\* the audio pipe and the thread that writes it
pipe_vars == <<sink, audio_pipe_ready, fifo_exists, fd_open, fd_blocking, reader,
               data, written, taken, offered, frame_len, dropped, sink_exc, flushed>>

\* the transport runtime (WyzeIOTC) and the account
run_vars == <<initd, asked, vendor, phone_id, sessions>>

\* the environment of the process
env_vars == <<environ, env_result>>

\* the API-only bridge (WyzeApiBridge)
bridge_vars == <<running, phase, api_auth, mqtt_client, cameras, health>>

\* the video loop under a sustained gap
drift_vars == <<drift>>

\* the purge threads of ffmpeg.py
purge_vars == <<purges_running, purge_threads, purge_log>>

\* the event pipe of MediaMTX and its reader (RtspEvent)
event_vars == <<event_stream, event_buf, dispatched, event_log>>

\* the MediaMTX subprocess of MtxServer
mtx_vars == <<sub_process, procs, mtx_log>>

\* the options of the streams and their paths
opt_vars == <<on_demand, cam_env, stream_list, mtx_paths, opt_log>>

\* the parts of the bridge modelled each on its own
more_vars == <<drift_vars, purge_vars, event_vars, mtx_vars, opt_vars>>

\* the parts other than the sustained drift
drift_others == <<purge_vars, event_vars, mtx_vars, opt_vars>>

\* the parts other than the purge threads
purge_others == <<drift_vars, event_vars, mtx_vars, opt_vars>>

\* the parts other than the event pipe
event_others == <<drift_vars, purge_vars, mtx_vars, opt_vars>>

\* the parts other than the media server
mtx_others == <<drift_vars, purge_vars, event_vars, opt_vars>>

\* the parts other than the stream options
opt_others == <<drift_vars, purge_vars, event_vars, mtx_vars>>

\* what is modelled apart from the session's lifecycle
side_vars == <<race_vars, stop_vars, pipe_vars, run_vars, env_vars, bridge_vars,
               more_vars>>

vars == <<state, session_id, av_chan_id, pc, fn, in_enter, ret, exc, exc_code,
          calls, entry, d_entry, d_from, inp, have_key_frame, camera, prev_fn,
          loop_vars, mux_vars, sync_vars, cfg_vars, side_vars>>

\* the camera descriptors a session is constructed with
Cameras == [p2p_id : BOOLEAN, dtls : BOOLEAN]

Snapshot == [state |-> state, session_id |-> session_id, av_chan_id |-> av_chan_id]

NoInput == [challenge |-> "", response |-> "", auth |-> "", connectionRes |-> "",
            resolution |-> ""]

Log(name, r) == Append(calls, [fn |-> name, ret |-> r])

Called(name) == \E i \in 1..Len(calls) : calls[i].fn = name

\* the frame size codes of the vendor library: 0 (1080P), 1 (360P), 3 and 4
\* (2K, doorbell)
FrameSizes == 0..MaxFrameSize

\* the sessions modelled: HD or 2K preferred, or HD with IGNORE_RES set
Settings ==
    \E c \in {<<0, None>>, <<3, None>>, <<0, 1>>} :
        /\ preferred_frame_size = c[1]
        /\ ignore_res = c[2]

\* no frame loop is running
NoFrame == [frame_size |-> 0, keyframe |-> FALSE]

LoopInit ==
    /\ late = FALSE
    /\ pull = ""
    /\ frame = NoFrame
    /\ renegs = 0
    /\ key_since = FALSE
    /\ seen_key_frame = FALSE

\* the threads that use the control channel of one session
Threads == {"main", "video", "audio"}

\* no thread but the caller's uses the session
MuxOff ==
    /\ thread = [t \in Threads |-> "off"]
    /\ listeners = 0

\* Times are in milliseconds since the instant 1591069888 s of the unix
\* clock; _sleep_buffer and the pacing delay are in microseconds.

\* line 281: self.frame_ts = 0.0, the start of the unix clock, which is
\* before every instant of the model
FrameTsInit == -1

\* the timestamp and timestamp_ms fields of the frame_info a step handles
NoStamp == [timestamp |-> 0, timestamp_ms |-> 0]

\* nothing was done yet: n counts the steps, frame and at are the frame a
\* step handled and the time it read, ref the frame_ts it found
NoEffect == [op |-> "", n |-> 0, frame |-> NoStamp, at |-> 0, ref |-> FrameTsInit,
             clears |-> 0, flushes |-> 0, added |-> 0, slept |-> 0, result |-> 0]

\* lines 274, 281, 283: the pacing fields of a new session
SyncOff ==
    /\ now = 0
    /\ frame_ts = FrameTsInit
    /\ sleep_buffer = 0
    /\ preferred_frame_rate = 15
    /\ low_latency = FALSE
    /\ eff = NoEffect

\* the loops that pull frames from one session
Loops == {"video", "audio"}

\* the fields of the session the pacing code writes
Fields == {"_sleep_buffer", "frame_ts"}

\* no loop is inside the pacing code
RaceOff ==
    /\ loop = [l \in Loops |-> "off"]
    /\ loaded = [l \in Loops |-> 0]
    /\ local_gap = [l \in Loops |-> 0]
    /\ handled = [l \in Loops |-> 0]
    /\ applied = 0
    /\ writers = [f \in Fields |-> {}]

\* line 251: stream_state defaults to c_int(0)
StopOff ==
    /\ stream_state = 0
    /\ after = [l \in Loops |-> 0]
    /\ ended = [l \in Loops |-> ""]

\* no flush_pipe("audio") was called yet: n counts the calls, ready is the
\* flag the call found, opened whether it opened the pipe, read the bytes it
\* read
NoFlush == [n |-> 0, ready |-> FALSE, opened |-> FALSE, read |-> 0]

\* line 280: audio_pipe_ready = False; recv_audio_pipe is not running
PipeOff ==
    /\ sink = "off"
    /\ audio_pipe_ready = FALSE
    /\ fifo_exists = FALSE
    /\ fd_open = FALSE
    /\ fd_blocking = TRUE
    /\ reader = "none"
    /\ data = <<>>
    /\ written = <<>>
    /\ taken = <<>>
    /\ offered = 0
    /\ frame_len = 0
    /\ dropped = 0
    /\ sink_exc = "none"
    /\ flushed = NoFlush

\* the phone_id the account is supplied with, as a string of characters
PhoneId == <<"p", "h", "o", "n", "e">>

\* line 90: self.initd = False; the account as it is supplied
RunOff ==
    /\ initd = FALSE
    /\ asked = 0
    /\ vendor = <<>>
    /\ phone_id = PhoneId
    /\ sessions = <<>>

\* os.getenv finds no variable of the name
Unset == <<"unset">>

\* env_bool was not called since the variable was set
NoResult == [of |-> Unset, value |-> <<>>]

EnvOff ==
    /\ environ = Unset
    /\ env_result = NoResult

\* health() was not called yet: n counts the calls, phase, auth and client
\* are what the call found, result is the dict it returned
NoHealth == [n |-> 0, phase |-> "", auth |-> "", client |-> "", result |-> <<>>]

\* wyze_api_bridge.py, lines 47-50: a bridge as its constructor leaves it, with
\* an api that is not logged in
BridgeOff ==
    /\ running = FALSE
    /\ phase = "new"
    /\ api_auth = "none"
    /\ mqtt_client = "none"
    /\ cameras = None
    /\ health = NoHealth

\* --- the parts modelled on their own, before they start
\* no frame of a sustained gap was handled
NoDrift == [frame |-> [timestamp |-> 0, timestamp_ms |-> 0], at |-> "", n |-> 0,
            prev |-> 0, end |-> 0, settled |-> FALSE]

DriftOff ==
    /\ drift = NoDrift

\* ffmpeg.py, line 190: the base paths purge_old is called with
Paths == {"cam1", "cam2"}

\* no purge was asked for and none was waited for
NoPurges == [calls |-> 0, waits |-> 0, joined |-> {}]

PurgeOff ==
    /\ purges_running = [p \in Paths |-> None]
    /\ purge_threads = <<>>
    /\ purge_log = NoPurges

\* nothing was written to the event pipe and nothing read
NoEvents == [sent |-> <<>>, read |-> 0, reads |-> 0, raised |-> FALSE]

EventOff ==
    /\ event_stream = <<>>
    /\ event_buf = <<>>
    /\ dispatched = <<>>
    /\ event_log = NoEvents

\* no call was made on the server
NoMtxCalls == [calls |-> 0, last |-> ""]

MtxOff ==
    /\ sub_process = 0
    /\ procs = <<>>
    /\ mtx_log = NoMtxCalls

\* wyze_bridge.py, line 86: the cameras of the account
Cams == {"cam1", "cam2"}

\* a main stream and a substream per camera
StreamIds == [cam : Cams, sub : BOOLEAN]

\* the environment names nothing for a camera
NoCamEnv == [record |-> FALSE, live |-> FALSE, substream |-> FALSE, sub_record |-> FALSE]

OptOff ==
    /\ on_demand = TRUE
    /\ cam_env = [c \in Cams |-> NoCamEnv]
    /\ stream_list = {}
    /\ mtx_paths = [i \in StreamIds |-> ""]
    /\ opt_log = 0

MoreOff ==
    /\ DriftOff
    /\ PurgeOff
    /\ EventOff
    /\ MtxOff
    /\ OptOff

\* the parts other than the sustained drift have not started
DriftOthersOff ==
    /\ PurgeOff
    /\ EventOff
    /\ MtxOff
    /\ OptOff

\* the parts other than the purge threads have not started
PurgeOthersOff ==
    /\ DriftOff
    /\ EventOff
    /\ MtxOff
    /\ OptOff

\* the parts other than the event pipe have not started
EventOthersOff ==
    /\ DriftOff
    /\ PurgeOff
    /\ MtxOff
    /\ OptOff

\* the parts other than the media server have not started
MtxOthersOff ==
    /\ DriftOff
    /\ PurgeOff
    /\ EventOff
    /\ OptOff

\* the parts other than the stream options have not started
OptOthersOff ==
    /\ DriftOff
    /\ PurgeOff
    /\ EventOff
    /\ MtxOff

SideOff ==
    /\ MoreOff
    /\ RaceOff
    /\ StopOff
    /\ PipeOff
    /\ RunOff
    /\ EnvOff
    /\ BridgeOff

\* WyzeIOTCSession.__init__
Init ==
    /\ state = DISCONNECTED
    /\ session_id = None
    /\ av_chan_id = None
    /\ pc = "idle"
    /\ fn = "__init__"
    /\ in_enter = FALSE
    /\ ret = "idle"
    /\ exc = "none"
    /\ exc_code = 0
    /\ calls = <<>>
    /\ entry = [state |-> DISCONNECTED, session_id |-> None, av_chan_id |-> None]
    /\ d_entry = [state |-> DISCONNECTED, session_id |-> None, av_chan_id |-> None]
    /\ d_from = 0
    /\ inp = NoInput
    /\ have_key_frame = FALSE
    /\ camera \in Cameras
    /\ prev_fn = "__init__"
    /\ LoopInit
    /\ MuxOff
    /\ SyncOff
    /\ Settings
    /\ SideOff

\* the caller invokes method f, which starts at position p
Invoke(f, p, enter) ==
    /\ pc = "idle"
    /\ pc' = p
    /\ fn' = f
    /\ in_enter' = enter
    /\ exc' = "none"
    /\ exc_code' = 0
    /\ calls' = <<>>
    /\ entry' = Snapshot
    /\ inp' = NoInput
    /\ have_key_frame' = FALSE
    /\ d_entry' = Snapshot
    /\ d_from' = 0
    /\ prev_fn' = fn
    /\ late' = FALSE
    /\ pull' = ""
    /\ frame' = NoFrame
    /\ renegs' = 0
    /\ key_since' = FALSE
    /\ seen_key_frame' = FALSE
    /\ UNCHANGED <<state, session_id, av_chan_id, camera, mux_vars, sync_vars, cfg_vars, side_vars>>

\* raise an exception of type t (carrying vendor code c) and go on at p
Raise(t, c, p) ==
    /\ exc' = t
    /\ exc_code' = c
    /\ pc' = p

\* the exception types the except clauses of _connect and _auth catch
Caught(t) == t = "TutkError"

\* an exception raised inside the try block of _connect: the except clause
\* takes a TutkError, anything else goes straight to the finally clause
RaiseInConnect(t, c) == Raise(t, c, IF Caught(t) THEN "c_except" ELSE "c_finally")

\* --------------------------------------------------------------- _connect
CallConnect == Invoke("_connect", "c_begin", FALSE) /\ ret' = ret

\* __enter__: _connect() then _auth()
CallEnter == Invoke("_connect", "c_begin", TRUE) /\ ret' = ret

\* line 695: self.state = IOTC_CONNECTING
ConnectBegin ==
    /\ pc = "c_begin"
    /\ state' = IOTC_CONNECTING
    /\ pc' = "c_assert"
    /\ UNCHANGED <<session_id, av_chan_id, fn, in_enter, ret, exc, exc_code, calls,
                   entry, d_entry, d_from, inp, have_key_frame, camera,
                   prev_fn, loop_vars, mux_vars, sync_vars, cfg_vars, side_vars>>

\* line 696: assert self.camera.p2p_id
ConnectAssert ==
    /\ pc = "c_assert"
    /\ IF camera.p2p_id
       THEN pc' = "c_get_session_id" /\ UNCHANGED <<exc, exc_code>>
       ELSE RaiseInConnect("AssertionError", 0)
    /\ UNCHANGED <<state, session_id, av_chan_id, fn, in_enter, ret, calls,
                   entry, d_entry, d_from, inp, have_key_frame, camera,
                   prev_fn, loop_vars, mux_vars, sync_vars, cfg_vars, side_vars>>

\* variant: the comparison misses the code -1
IsError_OffByOne(r) == r < -1

\* a vendor return value is a failure
IsError(r) == r < 0

\* lines 698-701: session_id = iotc_get_session_id(); raise if < 0
ConnectGetSessionId ==
    /\ pc = "c_get_session_id"
    /\ \E r \in ErrCodes \cup Handles :
          /\ calls' = Log("iotc_get_session_id", r)
          /\ IF IsError(r)
             THEN RaiseInConnect("TutkError", r) /\ UNCHANGED session_id
             ELSE /\ session_id' = r
                  /\ pc' = "c_connect"
                  /\ UNCHANGED <<exc, exc_code>>
    /\ UNCHANGED <<state, av_chan_id, fn, in_enter, ret, entry, d_entry, d_from,
                   inp, have_key_frame, camera,
                   prev_fn, loop_vars, mux_vars, sync_vars, cfg_vars, side_vars>>

\* lines 703-722: connect by uid (parallel, or with the derived key when the
\* camera or its parent uses dtls); raise if < 0
ConnectByUid ==
    /\ pc = "c_connect"
    /\ \E r \in ErrCodes \cup Handles :
          /\ calls' = Log(IF camera.dtls THEN "iotc_connect_by_uid_ex"
                                  ELSE "iotc_connect_by_uid_parallel", r)
          /\ IF IsError(r)
             THEN RaiseInConnect("TutkError", r) /\ UNCHANGED session_id
             ELSE /\ session_id' = r
                  /\ pc' = "c_session_check"
                  /\ UNCHANGED <<exc, exc_code>>
    /\ UNCHANGED <<state, av_chan_id, fn, in_enter, ret, entry, d_entry, d_from,
                   inp, have_key_frame, camera,
                   prev_fn, loop_vars, mux_vars, sync_vars, cfg_vars, side_vars>>

\* line 724 (session_check, lines 309-327): raise if errcode < 0
ConnectSessionCheck ==
    /\ pc = "c_session_check"
    /\ \E r \in ErrCodes \cup {0} :
          /\ calls' = Log("iotc_session_check", r)
          /\ IF IsError(r)
             THEN RaiseInConnect("TutkError", r)
             ELSE pc' = "c_av_connecting" /\ UNCHANGED <<exc, exc_code>>
    /\ UNCHANGED <<state, session_id, av_chan_id, fn, in_enter, ret, entry,
                   d_entry, d_from, inp, have_key_frame, camera,
                   prev_fn, loop_vars, mux_vars, sync_vars, cfg_vars, side_vars>>

\* lines 725-727: resend = ... int(os.getenv("RESEND", 1)) ...; a RESEND value
\* that is no integer makes int() raise ValueError; then state = AV_CONNECTING
ConnectAvConnecting ==
    /\ pc = "c_av_connecting"
    /\ \E resend_is_int \in BOOLEAN :
          IF resend_is_int
          THEN /\ state' = AV_CONNECTING
               /\ pc' = "c_av_client_start"
               /\ UNCHANGED <<exc, exc_code>>
          ELSE RaiseInConnect("ValueError", 0) /\ UNCHANGED state
    /\ UNCHANGED <<session_id, av_chan_id, fn, in_enter, ret, calls, entry,
                   d_entry, d_from, inp, have_key_frame, camera,
                   prev_fn, loop_vars, mux_vars, sync_vars, cfg_vars, side_vars>>

\* lines 729-742: av_chan_id = av_client_start(); raise if < 0
ConnectAvClientStart ==
    /\ pc = "c_av_client_start"
    /\ \E r \in ErrCodes \cup Handles :
          /\ calls' = Log("av_client_start", r)
          /\ IF IsError(r)
             THEN RaiseInConnect("TutkError", r) /\ UNCHANGED av_chan_id
             ELSE /\ av_chan_id' = r
                  /\ pc' = "c_connected"
                  /\ UNCHANGED <<exc, exc_code>>
    /\ UNCHANGED <<state, session_id, fn, in_enter, ret, entry, d_entry, d_from,
                   inp, have_key_frame, camera,
                   prev_fn, loop_vars, mux_vars, sync_vars, cfg_vars, side_vars>>

\* line 743: self.state = CONNECTED
ConnectConnected ==
    /\ pc = "c_connected"
    /\ state' = CONNECTED
    /\ pc' = "c_finally"
    /\ UNCHANGED <<session_id, av_chan_id, fn, in_enter, ret, exc, exc_code, calls,
                   entry, d_entry, d_from, inp, have_key_frame, camera,
                   prev_fn, loop_vars, mux_vars, sync_vars, cfg_vars, side_vars>>

\* lines 744-746: except tutk.TutkError: self._disconnect(); raise
ConnectExcept ==
    /\ pc = "c_except"
    /\ pc' = "d_begin"
    /\ ret' = "c_finally"
    /\ UNCHANGED <<state, session_id, av_chan_id, fn, in_enter, exc, exc_code,
                   calls, entry, d_entry, d_from, inp, have_key_frame, camera,
                   prev_fn, loop_vars, mux_vars, sync_vars, cfg_vars, side_vars>>

\* the state the finally clause of _connect leaves
ConnectFinallyState(s) == IF s # CONNECTED THEN CONNECTING_FAILED ELSE s

\* lines 747-749: finally; then the exception, if any, leaves _connect
ConnectFinally ==
    /\ pc = "c_finally"
    /\ state' = ConnectFinallyState(state)
    /\ pc' = IF exc = "none" THEN "c_set_buf" ELSE "idle"
    /\ UNCHANGED <<session_id, av_chan_id, fn, in_enter, ret, exc, exc_code, calls,
                   entry, d_entry, d_from, inp, have_key_frame, camera,
                   prev_fn, loop_vars, mux_vars, sync_vars, cfg_vars, side_vars>>

\* lines 757-760: set the receive buffer size and return; inside __enter__
\* (lines 350-353) _auth() is called next
ConnectSetBuf ==
    /\ pc = "c_set_buf"
    /\ IF in_enter
       THEN /\ pc' = "a_begin"
            /\ fn' = "_auth"
            /\ calls' = <<>>
            /\ entry' = Snapshot
       ELSE /\ pc' = "idle"
            /\ calls' = Log("av_client_set_recv_buf_size", 0)
            /\ UNCHANGED <<fn, entry>>
    /\ UNCHANGED <<state, session_id, av_chan_id, in_enter, ret, exc, exc_code,
                   d_entry, d_from, inp, have_key_frame, camera,
                   prev_fn, loop_vars, mux_vars, sync_vars, cfg_vars, side_vars>>

\* ------------------------------------------------------------ _disconnect
\* variant: a truthiness test, which takes handle 0 for no handle
Held_Truthy(h) == h # None /\ h # 0

\* "is not None" of lines 838 and 844
Held(h) == h # None

\* variant: the release call is made whether or not a handle is held
Release_Always(h, name) == Log(name, 0)

\* the log after the release call made for handle h, if it is held
Release(h, name) == IF Held(h) THEN Log(name, 0) ELSE calls

CallDisconnect == Invoke("_disconnect", "d_begin", FALSE) /\ ret' = "idle"

\* lines 838-842: stop the AV channel if one is held; av_chan_id = None
DisconnectChannel ==
    /\ pc = "d_begin"
    /\ d_entry' = Snapshot
    /\ d_from' = Len(calls)
    /\ calls' = Release(av_chan_id, "av_client_stop")
    /\ av_chan_id' = None
    /\ pc' = "d_session"
    /\ UNCHANGED <<state, session_id, fn, in_enter, ret, exc, exc_code, entry,
                   inp, have_key_frame, camera,
                   prev_fn, loop_vars, mux_vars, sync_vars, cfg_vars, side_vars>>

\* lines 844-853: close the transport session if one is held; session_id = None
DisconnectSession ==
    /\ pc = "d_session"
    /\ calls' = Release(session_id, "iotc_session_close")
    /\ session_id' = None
    /\ pc' = "d_state"
    /\ UNCHANGED <<state, av_chan_id, fn, in_enter, ret, exc, exc_code, entry,
                   d_entry, d_from, inp, have_key_frame, camera,
                   prev_fn, loop_vars, mux_vars, sync_vars, cfg_vars, side_vars>>

\* line 854: self.state = DISCONNECTED
DisconnectState ==
    /\ pc = "d_state"
    /\ state' = DISCONNECTED
    /\ pc' = "d_return"
    /\ UNCHANGED <<session_id, av_chan_id, fn, in_enter, ret, exc, exc_code, calls,
                   entry, d_entry, d_from, inp, have_key_frame, camera,
                   prev_fn, loop_vars, mux_vars, sync_vars, cfg_vars, side_vars>>

\* _disconnect returns to its caller
DisconnectReturn ==
    /\ pc = "d_return"
    /\ pc' = ret
    /\ UNCHANGED <<state, session_id, av_chan_id, fn, in_enter, ret, exc, exc_code,
                   calls, entry, d_entry, d_from, inp, have_key_frame, camera,
                   prev_fn, loop_vars, mux_vars, sync_vars, cfg_vars, side_vars>>

\* ------------------------------------------------------------------ _auth
CallAuth == Invoke("_auth", "a_begin", FALSE) /\ ret' = ret

\* variant: no precondition check at all
AuthPrecondition_AnyState(s) == TRUE

\* variant: a failed authentication may be retried without reconnecting
AuthPrecondition_Retry(s) == s \in {CONNECTED, AUTHENTICATION_FAILED}

\* the assert of lines 779-781
AuthPrecondition(s) == s = CONNECTED

\* an exception raised inside the try block of _auth, within the mux scope,
\* after the calls in sent: the scope's exit stops the listener, then the
\* except clause takes a TutkError and anything else goes to the finally clause
RaiseInAuth(t, c, sent) ==
    /\ Raise(t, c, IF Caught(t) THEN "a_except" ELSE "a_finally")
    /\ calls' = Append(sent, [fn |-> "stop_listening", ret |-> 0])

\* lines 776-783: return at once from CONNECTING_FAILED; assert CONNECTED;
\* self.state = AUTHENTICATING
AuthBegin ==
    /\ pc = "a_begin"
    /\ IF state = CONNECTING_FAILED
       THEN pc' = "idle" /\ UNCHANGED <<state, exc, exc_code>>
       ELSE IF ~AuthPrecondition(state)
            THEN Raise("AssertionError", 0, "idle") /\ UNCHANGED state
            ELSE /\ state' = AUTHENTICATING
                 /\ pc' = "a_mux"
                 /\ UNCHANGED <<exc, exc_code>>
    /\ UNCHANGED <<session_id, av_chan_id, fn, in_enter, ret, calls, entry,
                   d_entry, d_from, inp, have_key_frame, camera,
                   prev_fn, loop_vars, mux_vars, sync_vars, cfg_vars, side_vars>>

\* line 785 (iotctrl_mux, lines 347-348): assert av_chan_id is not None, then
\* the scope starts the listener
AuthMux ==
    /\ pc = "a_mux"
    /\ IF av_chan_id = None
       THEN Raise("AssertionError", 0, "a_finally") /\ UNCHANGED calls
       ELSE /\ calls' = Log("start_listening", 0)
            /\ pc' = "a_challenge"
            /\ UNCHANGED <<exc, exc_code>>
    /\ UNCHANGED <<state, session_id, av_chan_id, fn, in_enter, ret, entry,
                   d_entry, d_from, inp, have_key_frame, camera,
                   prev_fn, loop_vars, mux_vars, sync_vars, cfg_vars, side_vars>>

\* what a control round-trip gives: a reply, an empty result, a transport error
Replies == {"reply", "empty", "error"}

\* lines 790-795: send K10000ConnectRequest; empty result -> ValueError
AuthChallenge ==
    /\ pc = "a_challenge"
    /\ \E r \in Replies, c \in ErrCodes :
          /\ inp' = [inp EXCEPT !.challenge = r]
          /\ CASE r = "error" ->
                    RaiseInAuth("TutkError", c, Log("K10000ConnectRequest", 0))
               [] r = "empty" ->
                    RaiseInAuth("ValueError:CONNECT_REQUEST_FAILED", 0,
                                Log("K10000ConnectRequest", 0))
               [] OTHER ->
                    /\ calls' = Log("K10000ConnectRequest", 0)
                    /\ pc' = "a_respond"
                    /\ UNCHANGED <<exc, exc_code>>
    /\ UNCHANGED <<state, session_id, av_chan_id, fn, in_enter, ret, entry,
                   d_entry, d_from, have_key_frame, camera,
                   prev_fn, loop_vars, mux_vars, sync_vars, cfg_vars, side_vars>>

\* lines 799-811: challenge_response = respond_to_ioctrl_10001(...); none ->
\* ValueError("AUTH_FAILED")
AuthRespond ==
    /\ pc = "a_respond"
    /\ \E r \in {"reply", "empty"} :
          /\ inp' = [inp EXCEPT !.response = r]
          /\ IF r = "empty"
             THEN RaiseInAuth("ValueError:AUTH_FAILED", 0, calls)
             ELSE /\ pc' = "a_auth_response"
                  /\ UNCHANGED <<exc, exc_code, calls>>
    /\ UNCHANGED <<state, session_id, av_chan_id, fn, in_enter, ret, entry,
                   d_entry, d_from, have_key_frame, camera,
                   prev_fn, loop_vars, mux_vars, sync_vars, cfg_vars, side_vars>>

\* variant: the generic check comes first and swallows "2"
AuthResult_GenericFirst(cr) ==
    IF cr # "1" THEN "ValueError:AUTH_FAILED" ELSE "none"

\* variant: only "2" is rejected
AuthResult_AcceptOther(cr) ==
    IF cr = "2" THEN "ValueError:ENR_AUTH_FAILED" ELSE "none"

\* the exception lines 818-823 raise for connectionRes cr, "none" for success
AuthResult(cr) ==
    IF cr = "2" THEN "ValueError:ENR_AUTH_FAILED"
    ELSE IF cr # "1" THEN "ValueError:AUTH_FAILED"
    ELSE "none"

\* lines 813-825: send the challenge response; empty reply -> ValueError;
\* connectionRes decides; on "1" the camera info is stored
AuthResponse ==
    /\ pc = "a_auth_response"
    /\ \E r \in Replies, c \in ErrCodes, cr \in ConnectionRes :
          /\ inp' = [inp EXCEPT !.auth = r,
                                !.connectionRes = IF r = "reply" THEN cr ELSE ""]
          /\ CASE r = "error" ->
                    RaiseInAuth("TutkError", c, Log("ConnectAuth", 0))
               [] r = "empty" ->
                    RaiseInAuth("ValueError:AUTH_RESPONSE_NONE", 0, Log("ConnectAuth", 0))
               [] OTHER ->
                    IF AuthResult(cr) # "none"
                    THEN RaiseInAuth(AuthResult(cr), 0, Log("ConnectAuth", 0))
                    ELSE /\ calls' = Append(Log("ConnectAuth", 0),
                                            [fn |-> "set_camera_info", ret |-> 0])
                         /\ pc' = "a_resolving"
                         /\ UNCHANGED <<exc, exc_code>>
    /\ UNCHANGED <<state, session_id, av_chan_id, fn, in_enter, ret, entry,
                   d_entry, d_from, have_key_frame, camera,
                   prev_fn, loop_vars, mux_vars, sync_vars, cfg_vars, side_vars>>

\* lines 827-828: send the resolution command, wait for its round-trip (its
\* result, empty or not, is not looked at), then
\* self.state = AUTHENTICATION_SUCCEEDED; the mux scope ends
AuthResolving ==
    /\ pc = "a_resolving"
    /\ \E r \in Replies, c \in ErrCodes :
          /\ inp' = [inp EXCEPT !.resolution = r]
          /\ IF r = "error"
             THEN RaiseInAuth("TutkError", c, Log("SetResolvingBit", 0)) /\ UNCHANGED state
             ELSE /\ state' = AUTHENTICATION_SUCCEEDED
                  /\ calls' = Append(Log("SetResolvingBit", 0),
                                     [fn |-> "stop_listening", ret |-> 0])
                  /\ pc' = "a_finally"
                  /\ UNCHANGED <<exc, exc_code>>
    /\ UNCHANGED <<session_id, av_chan_id, fn, in_enter, ret, entry,
                   d_entry, d_from, have_key_frame, camera,
                   prev_fn, loop_vars, mux_vars, sync_vars, cfg_vars, side_vars>>

\* lines 829-831: except tutk.TutkError: self._disconnect(); raise
AuthExcept ==
    /\ pc = "a_except"
    /\ pc' = "d_begin"
    /\ ret' = "a_finally"
    /\ UNCHANGED <<state, session_id, av_chan_id, fn, in_enter, exc, exc_code,
                   calls, entry, d_entry, d_from, inp, have_key_frame, camera,
                   prev_fn, loop_vars, mux_vars, sync_vars, cfg_vars, side_vars>>

\* the state the finally clause of _auth leaves
AuthFinallyState(s) ==
    IF s # AUTHENTICATION_SUCCEEDED THEN AUTHENTICATION_FAILED ELSE s

\* lines 832-835: finally; then _auth returns or the exception leaves it
AuthFinally ==
    /\ pc = "a_finally"
    /\ state' = AuthFinallyState(state)
    /\ pc' = "idle"
    /\ UNCHANGED <<session_id, av_chan_id, fn, in_enter, ret, exc, exc_code, calls,
                   entry, d_entry, d_from, inp, have_key_frame, camera,
                   prev_fn, loop_vars, mux_vars, sync_vars, cfg_vars, side_vars>>

\* ------------------------------------------------------- recv_bridge_data
\* what a frame pull gives: a frame, an empty frame without error, the soft
\* conditions, or another (hard) transport error
Pulls == {"frame", "empty", "noready", "incomplete", "lost", "hard"}

\* the frame_info of a pulled frame: its frame_size, and whether it is a
\* keyframe
Frames == [frame_size : FrameSizes, keyframe : BOOLEAN]

\* lines 507-516: the preferred size, and IGNORE_RES or else the alternate
\* size of the preferred one
valid_frame_size ==
    {preferred_frame_size,
     IF ignore_res # None
     THEN ignore_res
     ELSE preferred_frame_size + (IF preferred_frame_size >= 3 THEN 1 ELSE 3)}

\* variant: the stream state is not looked at
should_stream_StateOnly(ss) == state = AUTHENTICATION_SUCCEEDED

\* lines 500-505: should_stream, for the stream_state value ss read
should_stream(ss) == state = AUTHENTICATION_SUCCEEDED /\ ss > 1

CallVideo == Invoke("recv_bridge_data", "v_begin", FALSE) /\ ret' = ret

\* lines 406-409: assert av_chan_id is not None; sync_camera_time(), which
\* sets frame_ts to the current time
VideoBegin ==
    /\ pc = "v_begin"
    /\ IF av_chan_id = None
       THEN Raise("AssertionError", 0, "idle") /\ UNCHANGED calls
       ELSE /\ calls' = Log("K10092SetCameraTime", 0)
            /\ pc' = "v_loop"
            /\ UNCHANGED <<exc, exc_code>>
    /\ late' = FALSE
    /\ UNCHANGED <<state, session_id, av_chan_id, fn, in_enter, ret, entry,
                   d_entry, d_from, inp, have_key_frame, camera, prev_fn,
                   pull, frame, renegs, key_since, seen_key_frame,
                   mux_vars, sync_vars, cfg_vars, side_vars>>

\* line 410: while self.should_stream(...)
VideoLoop ==
    /\ pc = "v_loop"
    /\ \E ss \in StreamStates :
          pc' = IF should_stream(ss) THEN "v_first_frame" ELSE "v_end"
    /\ renegs' = 0
    /\ UNCHANGED <<state, session_id, av_chan_id, fn, in_enter, ret, exc, exc_code,
                   calls, entry, d_entry, d_from, inp, have_key_frame, camera,
                   prev_fn, late, pull, frame, key_since, seen_key_frame,
                   mux_vars, sync_vars, cfg_vars, side_vars>>

\* update_frame_size_rate (537-551): the resolution command is sent without
\* waiting; an empty result is suppressed, a transport error is not
Renegotiate == {"sent", "error"}

\* line 442: the time since frame_ts has reached connect_timeout; it had
\* already (l) or it does now (pass), and frame_ts has not been set since
TimedOut(l, pass) == l \/ pass

\* lines 411-413 and _received_first_frame (440-451): past the connect
\* timeout, fail when have_key_frame is set, else renegotiate the frame size
\* (update_frame_size_rate without a new rate leaves frame_ts alone) and set
\* have_key_frame
VideoFirstFrame ==
    /\ pc = "v_first_frame"
    /\ \E pass \in BOOLEAN, u \in Renegotiate, c \in ErrCodes :
          /\ late' = TimedOut(late, pass)
          /\ IF ~TimedOut(late, pass)
             THEN /\ pc' = "v_recv"
                  /\ UNCHANGED <<state, exc, exc_code, have_key_frame, renegs>>
             ELSE IF have_key_frame
                  THEN /\ state' = CONNECTING_FAILED
                       /\ Raise("RuntimeError", 0, "idle")
                       /\ UNCHANGED <<have_key_frame, renegs>>
                  ELSE /\ renegs' = 1
                       /\ IF u = "error"
                          THEN /\ Raise("TutkError", c, "idle")
                               /\ UNCHANGED <<state, have_key_frame>>
                          ELSE /\ have_key_frame' = TRUE
                               /\ pc' = "v_loop"
                               /\ UNCHANGED <<state, exc, exc_code>>
    /\ UNCHANGED <<session_id, av_chan_id, fn, in_enter, ret, calls, entry, d_entry,
                   d_from, inp, camera, prev_fn, pull, frame, key_since,
                   seen_key_frame, mux_vars, sync_vars, cfg_vars, side_vars>>

\* variant: lost-frame is not one of the conditions returned from
SoftPull_NoLost(p) == p \in {"empty", "noready", "incomplete"}

\* _handle_frame_error (486-498): the conditions it returns from
SoftPull(p) == p \in {"empty", "noready", "incomplete", "lost"}

\* variant: every frame of unexpected size renegotiates
RenegotiateOnSize_Always(hkf) == TRUE

\* _invalid_frame_size, lines 459-465: a frame of unexpected size asks for
\* the resolution again only when have_key_frame is set
RenegotiateOnSize(hkf) == hkf

\* lines 415-435: pull a frame; soft conditions retry, a hard error raises;
\* a frame of unexpected size is dropped (_invalid_frame_size, 453-466) and
\* have_key_frame reset; any other frame passes _video_frame_slow when
\* have_key_frame is set (which leaves frame_ts within 5 s of the clock),
\* sets have_key_frame if it is a keyframe, and is yielded
VideoRecv ==
    /\ pc = "v_recv"
    /\ \E p \in Pulls, c \in ErrCodes, f \in Frames, u \in Renegotiate :
          /\ pull' = p
          /\ IF p # "frame"
             THEN /\ IF SoftPull(p)
                     THEN pc' = "v_loop" /\ UNCHANGED <<exc, exc_code>>
                     ELSE Raise("TutkError", c, "idle")
                  /\ UNCHANGED <<have_key_frame, frame, renegs, key_since,
                                 seen_key_frame, late>>
             ELSE /\ frame' = f
                  /\ seen_key_frame' = (seen_key_frame \/ f.keyframe)
                  /\ IF f.frame_size \notin valid_frame_size
                     THEN /\ key_since' = FALSE
                          /\ late' = late
                          /\ IF RenegotiateOnSize(have_key_frame)
                             THEN /\ renegs' = 1
                                  /\ IF u = "error"
                                     THEN /\ Raise("TutkError", c, "idle")
                                          /\ UNCHANGED have_key_frame
                                     ELSE /\ have_key_frame' = FALSE
                                          /\ pc' = "v_loop"
                                          /\ UNCHANGED <<exc, exc_code>>
                             ELSE /\ have_key_frame' = FALSE
                                  /\ pc' = "v_loop"
                                  /\ UNCHANGED <<exc, exc_code, renegs>>
                     ELSE /\ late' = IF have_key_frame THEN FALSE ELSE late
                          /\ have_key_frame' = (have_key_frame \/ f.keyframe)
                          /\ key_since' = (key_since \/ f.keyframe)
                          /\ pc' = "v_yield"
                          /\ UNCHANGED <<exc, exc_code, renegs>>
    /\ UNCHANGED <<state, session_id, av_chan_id, fn, in_enter, ret, calls, entry,
                   d_entry, d_from, inp, camera, prev_fn, mux_vars, sync_vars, cfg_vars, side_vars>>

\* line 435: the frame is handed to the consumer, who asks for the next one
\* or closes the generator
VideoYield ==
    /\ pc = "v_yield"
    /\ \E resume \in BOOLEAN : pc' = IF resume THEN "v_loop" ELSE "idle"
    /\ UNCHANGED <<state, session_id, av_chan_id, fn, in_enter, ret, exc, exc_code,
                   calls, entry, d_entry, d_from, inp, have_key_frame, camera,
                   prev_fn, loop_vars, mux_vars, sync_vars, cfg_vars, side_vars>>

\* lines 437-438: self.state = CONNECTING_FAILED; return
VideoEnd ==
    /\ pc = "v_end"
    /\ state' = CONNECTING_FAILED
    /\ pc' = "idle"
    /\ UNCHANGED <<session_id, av_chan_id, fn, in_enter, ret, exc, exc_code, calls,
                   entry, d_entry, d_from, inp, have_key_frame, camera,
                   prev_fn, loop_vars, mux_vars, sync_vars, cfg_vars, side_vars>>

\* -------------------------------------------------------- recv_audio_data
CallAudio == Invoke("recv_audio_data", "u_begin", FALSE) /\ ret' = ret

\* line 579: assert av_chan_id is not None
AudioBegin ==
    /\ pc = "u_begin"
    /\ IF av_chan_id = None
       THEN Raise("AssertionError", 0, "idle")
       ELSE pc' = "u_loop" /\ UNCHANGED <<exc, exc_code>>
    /\ UNCHANGED <<state, session_id, av_chan_id, fn, in_enter, ret, calls, entry,
                   d_entry, d_from, inp, have_key_frame, camera,
                   prev_fn, loop_vars, mux_vars, sync_vars, cfg_vars, side_vars>>

\* line 581: while self.should_stream()
AudioLoop ==
    /\ pc = "u_loop"
    /\ \E ss \in StreamStates :
          pc' = IF should_stream(ss) THEN "u_recv" ELSE "u_finally"
    /\ UNCHANGED <<state, session_id, av_chan_id, fn, in_enter, ret, exc, exc_code,
                   calls, entry, d_entry, d_from, inp, have_key_frame, camera,
                   prev_fn, loop_vars, mux_vars, sync_vars, cfg_vars, side_vars>>

\* variant: the loop has no except clause
AudioCaught_Nothing(t) == FALSE

\* line 594: except tutk.TutkError, which logs the error and goes on
AudioCaught(t) == t = "TutkError"

\* lines 582-596: pull an audio frame; soft conditions retry; a hard error
\* is raised by _handle_frame_error and taken by the except clause; a frame is
\* yielded
AudioRecv ==
    /\ pc = "u_recv"
    /\ \E p \in Pulls, c \in ErrCodes :
          /\ pull' = p
          /\ IF p # "frame"
             THEN IF SoftPull(p)
                  THEN pc' = "u_loop" /\ UNCHANGED <<exc, exc_code>>
                  ELSE IF AudioCaught("TutkError")
                       THEN pc' = "u_finally" /\ UNCHANGED <<exc, exc_code>>
                       ELSE Raise("TutkError", c, "u_finally")
             ELSE pc' = "u_yield" /\ UNCHANGED <<exc, exc_code>>
    /\ UNCHANGED <<state, session_id, av_chan_id, fn, in_enter, ret, calls, entry,
                   d_entry, d_from, inp, have_key_frame, camera, prev_fn,
                   late, frame, renegs, key_since, seen_key_frame,
                   mux_vars, sync_vars, cfg_vars, side_vars>>

\* line 593: the frame is handed to the consumer, who asks for the next one
\* or closes the generator (the finally clause then runs)
AudioYield ==
    /\ pc = "u_yield"
    /\ \E resume \in BOOLEAN : pc' = IF resume THEN "u_loop" ELSE "u_finally"
    /\ UNCHANGED <<state, session_id, av_chan_id, fn, in_enter, ret, exc, exc_code,
                   calls, entry, d_entry, d_from, inp, have_key_frame, camera,
                   prev_fn, loop_vars, mux_vars, sync_vars, cfg_vars, side_vars>>

\* variant: the finally clause leaves the state as it finds it
AudioFinallyState_Kept(s) == s

\* line 598: the state the finally clause of recv_audio_data leaves
AudioFinallyState(s) == CONNECTING_FAILED

\* lines 597-598: finally: self.state = CONNECTING_FAILED
AudioFinally ==
    /\ pc = "u_finally"
    /\ state' = AudioFinallyState(state)
    /\ pc' = "idle"
    /\ UNCHANGED <<session_id, av_chan_id, fn, in_enter, ret, exc, exc_code, calls,
                   entry, d_entry, d_from, inp, have_key_frame, camera,
                   prev_fn, loop_vars, mux_vars, sync_vars, cfg_vars, side_vars>>

\* ------------------------------------------------------------ the session
Next ==
    \/ CallConnect
    \/ CallEnter
    \/ ConnectBegin
    \/ ConnectAssert
    \/ ConnectGetSessionId
    \/ ConnectByUid
    \/ ConnectSessionCheck
    \/ ConnectAvConnecting
    \/ ConnectAvClientStart
    \/ ConnectConnected
    \/ ConnectExcept
    \/ ConnectFinally
    \/ ConnectSetBuf
    \/ CallDisconnect
    \/ DisconnectChannel
    \/ DisconnectSession
    \/ DisconnectState
    \/ DisconnectReturn
    \/ CallAuth
    \/ AuthBegin
    \/ AuthMux
    \/ AuthChallenge
    \/ AuthRespond
    \/ AuthResponse
    \/ AuthResolving
    \/ AuthExcept
    \/ AuthFinally
    \/ CallVideo
    \/ VideoBegin
    \/ VideoLoop
    \/ VideoFirstFrame
    \/ VideoRecv
    \/ VideoYield
    \/ VideoEnd
    \/ CallAudio
    \/ AudioBegin
    \/ AudioLoop
    \/ AudioRecv
    \/ AudioYield
    \/ AudioFinally

Spec == Init /\ [][Next]_vars

\* ------------------------------------- the threads on the control channel
\* The session is set up by one thread (_auth, check_native_rtsp); the video
\* loop and the audio loop (recv_audio_pipe) then run as two threads of the same
\* session.  Each "with self.iotctrl_mux()" scope starts a listener on entry
\* and stops it on exit.

\* the fields of the sequential caller, which the threads leave alone
caller_vars == <<pc, fn, in_enter, ret, exc, exc_code,
                 calls, entry, d_entry, d_from, inp, camera, prev_fn,
                 pull, frame, renegs, key_since, seen_key_frame>>

\* a session that _connect() has connected
InitMux ==
    /\ state = CONNECTED
    /\ session_id = 0
    /\ av_chan_id = 0
    /\ pc = "idle"
    /\ fn = "_connect"
    /\ in_enter = TRUE
    /\ ret = "idle"
    /\ exc = "none"
    /\ exc_code = 0
    /\ calls = <<>>
    /\ entry = [state |-> DISCONNECTED, session_id |-> None, av_chan_id |-> None]
    /\ d_entry = [state |-> DISCONNECTED, session_id |-> None, av_chan_id |-> None]
    /\ d_from = 0
    /\ inp = NoInput
    /\ have_key_frame = FALSE
    /\ camera = [p2p_id |-> TRUE, dtls |-> FALSE]
    /\ prev_fn = "__init__"
    /\ LoopInit
    /\ thread = [t \in Threads |-> IF t = "main" THEN "init" ELSE "off"]
    /\ listeners = 0
    /\ SyncOff
    /\ preferred_frame_size = 0
    /\ ignore_res = None
    /\ SideOff

\* TutkIOCtrlMux.__enter__: thread t enters a scope and goes on at p
Open(t, p) ==
    /\ thread' = [thread EXCEPT ![t] = p]
    /\ listeners' = listeners + 1

\* TutkIOCtrlMux.__exit__: thread t leaves its scope and goes on at p
Close(t, p) ==
    /\ thread' = [thread EXCEPT ![t] = p]
    /\ listeners' = listeners - 1

Move(t, p) ==
    /\ thread' = [thread EXCEPT ![t] = p]
    /\ UNCHANGED listeners

\* line 786: _auth enters its scope
MainAuthEnter ==
    /\ thread["main"] = "init"
    /\ state' = AUTHENTICATING
    /\ Open("main", "auth")
    /\ UNCHANGED <<session_id, av_chan_id, caller_vars, have_key_frame, late,
                   sync_vars, cfg_vars, side_vars>>

\* lines 786-835: the scope of _auth is left, with or without an error
MainAuthExit ==
    /\ thread["main"] = "auth"
    /\ \E ok \in BOOLEAN :
          IF ok
          THEN state' = AUTHENTICATION_SUCCEEDED /\ Close("main", "authed")
          ELSE state' = AUTHENTICATION_FAILED /\ Close("main", "failed")
    /\ UNCHANGED <<session_id, av_chan_id, caller_vars, have_key_frame, late,
                   sync_vars, cfg_vars, side_vars>>

\* line 369: check_native_rtsp enters its first scope (K10604GetRtspParam)
MainRtspQuery ==
    /\ thread["main"] = "authed"
    /\ Open("main", "rtsp_query")
    /\ UNCHANGED <<state, session_id, av_chan_id, caller_vars, have_key_frame,
                   late, sync_vars, cfg_vars, side_vars>>

\* lines 369-386: the first scope is left; without a reply, or with an rtsp
\* url, check_native_rtsp returns, else it goes on to switch rtsp on
MainRtspQueryExit ==
    /\ thread["main"] = "rtsp_query"
    /\ \E enable \in BOOLEAN :
          Close("main", IF enable THEN "rtsp_switch" ELSE "checked")
    /\ UNCHANGED <<state, session_id, av_chan_id, caller_vars, have_key_frame,
                   late, sync_vars, cfg_vars, side_vars>>

\* line 388: check_native_rtsp enters its second scope (K10600SetRtspSwitch)
MainRtspSwitch ==
    /\ thread["main"] = "rtsp_switch"
    /\ Open("main", "rtsp_enable")
    /\ UNCHANGED <<state, session_id, av_chan_id, caller_vars, have_key_frame,
                   late, sync_vars, cfg_vars, side_vars>>

\* lines 388-396: the second scope is left
MainRtspSwitchExit ==
    /\ thread["main"] = "rtsp_enable"
    /\ Close("main", "checked")
    /\ UNCHANGED <<state, session_id, av_chan_id, caller_vars, have_key_frame,
                   late, sync_vars, cfg_vars, side_vars>>

\* the video loop and the audio loop are started on the session
MainStart ==
    /\ thread["main"] \in {"authed", "checked"}
    /\ thread' = [thread EXCEPT !["main"] = "started", !["video"] = "v_begin",
                                !["audio"] = "u_loop"]
    /\ UNCHANGED <<state, session_id, av_chan_id, listeners, caller_vars,
                   have_key_frame, late,
                   sync_vars, cfg_vars, side_vars>>

\* lines 409, 518-520: recv_bridge_data calls sync_camera_time, which enters
\* a scope
VideoSync ==
    /\ thread["video"] = "v_begin"
    /\ Open("video", "v_sync")
    /\ UNCHANGED <<state, session_id, av_chan_id, caller_vars, have_key_frame,
                   late, sync_vars, cfg_vars, side_vars>>

\* lines 519-522: the scope of sync_camera_time is left (errors suppressed)
\* and frame_ts set to the current time
VideoSyncExit ==
    /\ thread["video"] = "v_sync"
    /\ Close("video", "v_loop")
    /\ late' = FALSE
    /\ UNCHANGED <<state, session_id, av_chan_id, caller_vars, have_key_frame,
                   sync_vars, cfg_vars, side_vars>>

\* line 410, 437: should_stream() is false, the loop ends
VideoStop ==
    /\ thread["video"] = "v_loop"
    /\ \E ss \in StreamStates : ~should_stream(ss)
    /\ state' = CONNECTING_FAILED
    /\ Move("video", "v_done")
    /\ UNCHANGED <<session_id, av_chan_id, caller_vars, have_key_frame, late,
                   sync_vars, cfg_vars, side_vars>>

\* lines 411-413, 440-451: past the connect timeout the loop raises when
\* have_key_frame is set, else update_frame_size_rate enters a scope
VideoTimeout ==
    /\ thread["video"] = "v_loop"
    /\ should_stream(2)
    /\ \E pass \in BOOLEAN : TimedOut(late, pass)
    /\ late' = TRUE
    /\ IF have_key_frame
       THEN /\ state' = CONNECTING_FAILED
            /\ Move("video", "v_done")
            /\ UNCHANGED have_key_frame
       ELSE /\ have_key_frame' = TRUE
            /\ Open("video", "v_reneg")
            /\ UNCHANGED state
    /\ UNCHANGED <<session_id, av_chan_id, caller_vars, sync_vars, cfg_vars, side_vars>>

\* lines 425-427, 453-466: a frame of unexpected size; update_frame_size_rate
\* enters a scope when have_key_frame is set
VideoBadSize ==
    /\ thread["video"] = "v_loop"
    /\ should_stream(2)
    /\ ~late
    /\ have_key_frame' = FALSE
    /\ IF RenegotiateOnSize(have_key_frame)
       THEN Open("video", "v_reneg")
       ELSE Move("video", "v_loop")
    /\ UNCHANGED <<state, session_id, av_chan_id, caller_vars, late, sync_vars, cfg_vars, side_vars>>

\* lines 546-551: the scope of update_frame_size_rate is left; a transport
\* error of the command ends the loop
VideoRenegExit ==
    /\ thread["video"] = "v_reneg"
    /\ \E u \in Renegotiate :
          Close("video", IF u = "sent" THEN "v_loop" ELSE "v_done")
    /\ UNCHANGED <<state, session_id, av_chan_id, caller_vars, have_key_frame,
                   late, sync_vars, cfg_vars, side_vars>>

\* lines 429-435, 468-477, 553-556: a frame of expected size; with
\* have_key_frame set, _video_frame_slow sets frame_ts, and with a gap above
\* 5 s clear_buffer calls sync_camera_time, which enters a scope
VideoFrame ==
    /\ thread["video"] = "v_loop"
    /\ should_stream(2)
    /\ ~late
    /\ \E keyframe \in BOOLEAN, clear \in BOOLEAN :
          /\ have_key_frame' = (have_key_frame \/ keyframe)
          /\ IF have_key_frame /\ clear
             THEN Open("video", "v_clear")
             ELSE Move("video", "v_loop")
    /\ UNCHANGED <<state, session_id, av_chan_id, caller_vars, late, sync_vars, cfg_vars, side_vars>>

\* lines 519-522: the scope is left and frame_ts set to the current time
VideoClearExit ==
    /\ thread["video"] = "v_clear"
    /\ Close("video", "v_clean")
    /\ late' = FALSE
    /\ UNCHANGED <<state, session_id, av_chan_id, caller_vars, have_key_frame,
                   sync_vars, cfg_vars, side_vars>>

\* line 558: av_client_clean_local_buf
VideoClean ==
    /\ thread["video"] = "v_clean"
    /\ Move("video", "v_loop")
    /\ UNCHANGED <<state, session_id, av_chan_id, caller_vars, have_key_frame,
                   late, sync_vars, cfg_vars, side_vars>>

\* lines 581, 597-598: should_stream() is false, the audio loop ends
AudioStop ==
    /\ thread["audio"] = "u_loop"
    /\ \E ss \in StreamStates : ~should_stream(ss)
    /\ state' = AudioFinallyState(state)
    /\ Move("audio", "u_done")
    /\ UNCHANGED <<session_id, av_chan_id, caller_vars, have_key_frame, late,
                   sync_vars, cfg_vars, side_vars>>

\* lines 592, 629-630, 553-556: an audio frame more than 5 s from the video
\* timestamp: clear_buffer asserts that a channel is held (if not, the
\* AssertionError leaves the loop through its finally clause) and calls
\* sync_camera_time, which enters a scope
AudioClear ==
    /\ thread["audio"] = "u_loop"
    /\ should_stream(2)
    /\ IF av_chan_id = None
       THEN state' = AudioFinallyState(state) /\ Move("audio", "u_done")
       ELSE Open("audio", "u_clear") /\ UNCHANGED state
    /\ UNCHANGED <<session_id, av_chan_id, caller_vars, have_key_frame, late,
                   sync_vars, cfg_vars, side_vars>>

\* lines 519-522: the scope is left and frame_ts set to the current time
AudioClearExit ==
    /\ thread["audio"] = "u_clear"
    /\ Close("audio", "u_clean")
    /\ late' = FALSE
    /\ UNCHANGED <<state, session_id, av_chan_id, caller_vars, have_key_frame,
                   sync_vars, cfg_vars, side_vars>>

\* line 558: av_client_clean_local_buf
AudioClean ==
    /\ thread["audio"] = "u_clean"
    /\ Move("audio", "u_loop")
    /\ UNCHANGED <<state, session_id, av_chan_id, caller_vars, have_key_frame,
                   late, sync_vars, cfg_vars, side_vars>>

\* the video loop has ended: the session is left (__exit__, line 684) and
\* _disconnect stops the AV channel (838-842)
MainDisconnectChannel ==
    /\ thread["main"] = "started"
    /\ thread["video"] = "v_done"
    /\ av_chan_id' = None
    /\ Move("main", "d_session")
    /\ UNCHANGED <<state, session_id, caller_vars, have_key_frame, late,
                   sync_vars, cfg_vars, side_vars>>

\* lines 844-853: _disconnect closes the transport session
MainDisconnectSession ==
    /\ thread["main"] = "d_session"
    /\ session_id' = None
    /\ Move("main", "d_state")
    /\ UNCHANGED <<state, av_chan_id, caller_vars, have_key_frame, late,
                   sync_vars, cfg_vars, side_vars>>

\* line 854: self.state = DISCONNECTED
MainDisconnectState ==
    /\ thread["main"] = "d_state"
    /\ state' = DISCONNECTED
    /\ Move("main", "closed")
    /\ UNCHANGED <<session_id, av_chan_id, caller_vars, have_key_frame, late,
                   sync_vars, cfg_vars, side_vars>>

NextMux ==
    \/ MainAuthEnter
    \/ MainAuthExit
    \/ MainRtspQuery
    \/ MainRtspQueryExit
    \/ MainRtspSwitch
    \/ MainRtspSwitchExit
    \/ MainStart
    \/ VideoSync
    \/ VideoSyncExit
    \/ VideoStop
    \/ VideoTimeout
    \/ VideoBadSize
    \/ VideoRenegExit
    \/ VideoFrame
    \/ VideoClearExit
    \/ VideoClean
    \/ AudioStop
    \/ AudioClear
    \/ AudioClearExit
    \/ AudioClean
    \/ MainDisconnectChannel
    \/ MainDisconnectSession
    \/ MainDisconnectState

SpecMux == InitMux /\ [][NextMux]_vars

\* --------------------------------------------- pacing and synchronisation
\* line 470, 625: timestamps before this instant are taken for bogus
BogusBefore == 1591069888

\* the instants at which the clock is read
Instants == {k * 500 : k \in 12..MaxTick}

\* the timestamps a camera stamps its frames with: a bogus one, and the
\* seconds around the instants, each with a timestamp_ms of 0, 9 or 95
SyncFrames ==
    [timestamp : {BogusBefore - 1} \cup (BogusBefore..(BogusBefore + MaxSec)),
     timestamp_ms : {0, 9, 95}]

\* the frame rates update_frame_size_rate is called with
FrameRates == {15, 30, 120}

Max(a, b) == IF a > b THEN a ELSE b

Abs(a) == IF a < 0 THEN 0 - a ELSE a

\* f"{timestamp}.{timestamp_ms}" read back as a float (lines 474, 628): the
\* digits of timestamp_ms become the decimal fraction, so 9 reads as 0.9 s
Frac(ms) == IF ms < 10 THEN ms * 100 ELSE IF ms < 100 THEN ms * 10 ELSE ms

Stamp(f) == (f.timestamp - BogusBefore) * 1000 + Frac(f.timestamp_ms)

\* the fields of the sequential caller and of the threads, which the pacing
\* steps leave alone
life_vars == <<state, session_id, av_chan_id, have_key_frame, late, caller_vars,
               mux_vars, cfg_vars, side_vars>>

\* a new session, or one that is connected and authenticated
InitSync ==
    /\ \E connected \in BOOLEAN :
          /\ state = IF connected THEN AUTHENTICATION_SUCCEEDED ELSE DISCONNECTED
          /\ session_id = IF connected THEN 0 ELSE None
          /\ av_chan_id = IF connected THEN 0 ELSE None
    /\ pc = "idle"
    /\ fn = "__init__"
    /\ in_enter = FALSE
    /\ ret = "idle"
    /\ exc = "none"
    /\ exc_code = 0
    /\ calls = <<>>
    /\ entry = [state |-> DISCONNECTED, session_id |-> None, av_chan_id |-> None]
    /\ d_entry = [state |-> DISCONNECTED, session_id |-> None, av_chan_id |-> None]
    /\ d_from = 0
    /\ inp = NoInput
    /\ have_key_frame = FALSE
    /\ camera = [p2p_id |-> TRUE, dtls |-> FALSE]
    /\ prev_fn = "__init__"
    /\ LoopInit
    /\ MuxOff
    /\ preferred_frame_size = 0
    /\ ignore_res = None
    /\ now \in Instants
    /\ frame_ts = FrameTsInit
    /\ sleep_buffer = 0
    /\ preferred_frame_rate = 15
    /\ low_latency \in BOOLEAN
    /\ eff = NoEffect
    /\ SideOff

\* time passes
Tick ==
    /\ \E t \in Instants : t > now /\ now' = t
    /\ UNCHANGED <<frame_ts, sleep_buffer, preferred_frame_rate, low_latency, eff,
                   life_vars>>

\* lines 518-522, called at line 409: sync_camera_time on a connected
\* session sets frame_ts to the current time
SyncCameraTime ==
    /\ eff.n < MaxOps
    /\ av_chan_id # None
    /\ frame_ts' = now
    /\ eff' = [NoEffect EXCEPT !.op = "sync", !.n = eff.n + 1, !.at = now,
                               !.ref = frame_ts]
    /\ UNCHANGED <<now, sleep_buffer, preferred_frame_rate, low_latency, life_vars>>

\* lines 537-551: a new rate is stored and sync_camera_time called; without a
\* channel the assertion of iotctrl_mux fails there, after the rate was stored
UpdateFrameSizeRate ==
    /\ eff.n < MaxOps
    /\ \E fps \in FrameRates :
          /\ preferred_frame_rate' = fps
          /\ frame_ts' = IF fps # preferred_frame_rate /\ av_chan_id # None
                         THEN now ELSE frame_ts
    /\ eff' = [NoEffect EXCEPT !.op = "rate", !.n = eff.n + 1, !.at = now,
                               !.ref = frame_ts]
    /\ UNCHANGED <<now, sleep_buffer, low_latency, life_vars>>

\* lines 468-484, with clear_buffer (553-558) and flush_pipe (560-576): what
\* _video_frame_slow does for the frame f
video_frame_slow(f) ==
    IF f.timestamp < BogusBefore
    THEN [frame_ts |-> now, clears |-> 0, flushes |-> 0, added |-> 0]
    ELSE LET gap == now - Stamp(f)
         IN  [frame_ts |-> IF gap > 5000 THEN now ELSE Stamp(f),
              clears |-> IF gap > 5000 THEN 1 ELSE 0,
              flushes |-> IF gap > 1000 THEN 1 ELSE 0,
              added |-> IF gap > 0 THEN gap * 1000 ELSE 0]

\* line 430: a video frame passes _video_frame_slow
SyncVideoFrame ==
    /\ eff.n < MaxOps
    /\ av_chan_id # None
    /\ \E f \in SyncFrames :
          LET r == video_frame_slow(f)
          IN  /\ frame_ts' = r.frame_ts
              /\ sleep_buffer' = sleep_buffer + r.added
              /\ eff' = [NoEffect EXCEPT !.op = "video", !.n = eff.n + 1,
                            !.frame = f, !.at = now, !.ref = frame_ts,
                            !.clears = r.clears, !.flushes = r.flushes,
                            !.added = r.added]
    /\ UNCHANGED <<now, preferred_frame_rate, low_latency, life_vars>>

\* lines 623-642, with clear_buffer and flush_pipe: what _sync_audio_frame
\* does for the frame f
sync_audio_frame(f) ==
    IF f.timestamp < BogusBefore
    THEN [frame_ts |-> frame_ts, clears |-> 0, flushes |-> 0, added |-> 0,
          slept |-> 0]
    ELSE LET gap == Stamp(f) - frame_ts
         IN  [frame_ts |-> IF Abs(gap) > 5000 THEN now ELSE frame_ts,
              clears |-> IF Abs(gap) > 5000 THEN 1 ELSE 0,
              flushes |-> IF gap < -1000 THEN 1 ELSE 0,
              added |-> IF gap > 0 THEN gap * 1000 ELSE 0,
              slept |-> IF gap > 1000 THEN (gap * 1000) \div 2 ELSE 0]

\* line 592: an audio frame passes _sync_audio_frame; the gap is taken
\* against a frame_ts that sync_camera_time or a video frame has set
SyncAudioFrame ==
    /\ eff.n < MaxOps
    /\ av_chan_id # None
    /\ frame_ts # FrameTsInit
    /\ \E f \in SyncFrames :
          LET r == sync_audio_frame(f)
          IN  /\ frame_ts' = r.frame_ts
              /\ sleep_buffer' = sleep_buffer + r.added
              /\ eff' = [NoEffect EXCEPT !.op = "audio", !.n = eff.n + 1,
                            !.frame = f, !.at = now, !.ref = frame_ts,
                            !.clears = r.clears, !.flushes = r.flushes,
                            !.added = r.added, !.slept = r.slept]
    /\ UNCHANGED <<now, preferred_frame_rate, low_latency, life_vars>>

\* line 297: fps = 1 / self.preferred_frame_rate * 0.95
Period(rate) == 950000 \div rate

\* variant: the elapsed time is not floored at 0
Elapsed_Unclamped(t, fts) == (t - fts) * 1000

\* line 298: delta = max(time.time() - self.frame_ts, 0.0)
Elapsed(t, fts) == Max(t - fts, 0) * 1000

\* variant: the accumulator is lowered without the floor
Lowered_Unfloored(buf, fps) == buf - fps

\* line 301: self._sleep_buffer = max(self._sleep_buffer - fps, 0)
Lowered(buf, fps) == Max(buf - fps, 0)

\* lines 289-303: the delay sleep_interval returns and the _sleep_buffer it
\* leaves
sleep_interval ==
    IF low_latency
    THEN [result |-> 0, sleep_buffer |-> sleep_buffer]
    ELSE IF frame_ts = FrameTsInit
         THEN [result |-> 10000, sleep_buffer |-> sleep_buffer]
         ELSE LET fps == Period(preferred_frame_rate)
                  delta == Elapsed(now, frame_ts)
                           + (IF sleep_buffer # 0 THEN sleep_buffer ELSE 0)
              IN  [result |-> Max(fps - delta, fps \div 4),
                   sleep_buffer |-> IF sleep_buffer # 0
                                    THEN Lowered(sleep_buffer, fps)
                                    ELSE sleep_buffer]

\* line 410: the property sleep_interval is read
ReadSleepInterval ==
    /\ eff.n < MaxOps
    /\ sleep_buffer' = sleep_interval.sleep_buffer
    /\ eff' = [NoEffect EXCEPT !.op = "sleep", !.n = eff.n + 1, !.at = now,
                               !.ref = frame_ts,
                               !.added = sleep_interval.sleep_buffer - sleep_buffer,
                               !.result = sleep_interval.result]
    /\ UNCHANGED <<now, frame_ts, preferred_frame_rate, low_latency, life_vars>>

NextSync ==
    \/ Tick
    \/ SyncCameraTime
    \/ UpdateFrameSizeRate
    \/ SyncVideoFrame
    \/ SyncAudioFrame
    \/ ReadSleepInterval

SpecSync == InitSync /\ [][NextSync]_vars

\* ------------------------------------------ the two loops in the pacing code
\* The video loop (recv_bridge_data) and the audio loop (recv_audio_data) run
\* as two threads of one session.  Each read and each write of a field is a
\* step of its own: "self._sleep_buffer += gap" reads the field, adds, and
\* writes it back.

\* what the steps of the two loops leave alone
race_rest == <<state, session_id, av_chan_id, have_key_frame, late, caller_vars,
               mux_vars, cfg_vars, preferred_frame_rate, low_latency, eff,
               stop_vars, pipe_vars, run_vars, env_vars, bridge_vars,
                more_vars>>

\* an authenticated session whose two loops are about to start
InitRace ==
    /\ state = AUTHENTICATION_SUCCEEDED
    /\ session_id = 0
    /\ av_chan_id = 0
    /\ pc = "idle"
    /\ fn = "_auth"
    /\ in_enter = TRUE
    /\ ret = "idle"
    /\ exc = "none"
    /\ exc_code = 0
    /\ calls = <<>>
    /\ entry = [state |-> DISCONNECTED, session_id |-> None, av_chan_id |-> None]
    /\ d_entry = [state |-> DISCONNECTED, session_id |-> None, av_chan_id |-> None]
    /\ d_from = 0
    /\ inp = NoInput
    /\ have_key_frame = TRUE
    /\ camera = [p2p_id |-> TRUE, dtls |-> FALSE]
    /\ prev_fn = "__init__"
    /\ LoopInit
    /\ MuxOff
    /\ preferred_frame_size = 0
    /\ ignore_res = None
    /\ now \in Instants
    /\ frame_ts = FrameTsInit
    /\ sleep_buffer = 0
    /\ preferred_frame_rate = 15
    /\ low_latency = FALSE
    /\ eff = NoEffect
    /\ loop = [l \in Loops |-> IF l = "video" THEN "v_begin" ELSE "u_pull"]
    /\ loaded = [l \in Loops |-> 0]
    /\ local_gap = [l \in Loops |-> 0]
    /\ handled = [l \in Loops |-> 0]
    /\ applied = 0
    /\ writers = [f \in Fields |-> {}]
    /\ StopOff
    /\ PipeOff
    /\ RunOff
    /\ EnvOff
    /\ BridgeOff
    /\ MoreOff

\* loop l goes on at p
Goto(l, p) == loop' = [loop EXCEPT ![l] = p]

\* loop l has synchronised a frame and goes on at p
NextFrame(l, p) ==
    /\ Goto(l, p)
    /\ handled' = [handled EXCEPT ![l] = handled[l] + 1]

\* loop l writes the field f
Writes(l, f) == writers' = [writers EXCEPT ![f] = writers[f] \cup {l}]

\* time passes while the loops run
RaceTick ==
    /\ \E t \in Instants : t > now /\ now' = t
    /\ UNCHANGED <<frame_ts, sleep_buffer, race_vars, race_rest>>

\* lines 409, 522: recv_bridge_data calls sync_camera_time, which writes
\* frame_ts
RaceVideoSyncTime ==
    /\ loop["video"] = "v_begin"
    /\ frame_ts' = now
    /\ Goto("video", "v_top")
    /\ Writes("video", "frame_ts")
    /\ UNCHANGED <<now, sleep_buffer, loaded, local_gap, handled, applied, race_rest>>

\* lines 410, 291-299: the loop condition reads sleep_interval, which returns
\* early or finds _sleep_buffer zero or not
RaceSleepTest ==
    /\ loop["video"] = "v_top"
    /\ handled["video"] < MaxFrames
    /\ Goto("video", IF low_latency \/ frame_ts = FrameTsInit \/ sleep_buffer = 0
                      THEN "v_pull" ELSE "v_sleep_load")
    /\ UNCHANGED <<now, frame_ts, sleep_buffer, loaded, local_gap, handled, applied,
                   writers, race_rest>>

\* line 301: sleep_interval reads _sleep_buffer
RaceSleepLoad ==
    /\ loop["video"] = "v_sleep_load"
    /\ loaded' = [loaded EXCEPT !["video"] = sleep_buffer]
    /\ Goto("video", "v_sleep_store")
    /\ UNCHANGED <<now, frame_ts, sleep_buffer, local_gap, handled, applied, writers,
                   race_rest>>

\* line 301: sleep_interval writes the lowered value
RaceSleepStore ==
    /\ loop["video"] = "v_sleep_store"
    /\ sleep_buffer' = Lowered(loaded["video"], Period(preferred_frame_rate))
    /\ applied' = Lowered(applied, Period(preferred_frame_rate))
    /\ Goto("video", "v_pull")
    /\ Writes("video", "_sleep_buffer")
    /\ UNCHANGED <<now, frame_ts, loaded, local_gap, handled, race_rest>>

\* lines 430, 468-475: _video_frame_slow writes frame_ts and takes the gap
RaceVideoStamp ==
    /\ loop["video"] = "v_pull"
    /\ \E f \in SyncFrames :
          IF f.timestamp < BogusBefore
          THEN /\ frame_ts' = now
               /\ NextFrame("video", "v_top")
               /\ UNCHANGED local_gap
          ELSE /\ frame_ts' = Stamp(f)
               /\ local_gap' = [local_gap EXCEPT !["video"] = now - Stamp(f)]
               /\ Goto("video", "v_slow")
               /\ UNCHANGED handled
    /\ Writes("video", "frame_ts")
    /\ UNCHANGED <<now, sleep_buffer, loaded, applied, race_rest>>

\* lines 477-483, 522: past 5 s clear_buffer calls sync_camera_time, which
\* writes frame_ts; a gap above 0 is to be added
RaceVideoSlow ==
    /\ loop["video"] = "v_slow"
    /\ IF local_gap["video"] > 5000
       THEN frame_ts' = now /\ Writes("video", "frame_ts")
       ELSE UNCHANGED <<frame_ts, writers>>
    /\ IF local_gap["video"] > 0
       THEN Goto("video", "v_add_load") /\ UNCHANGED handled
       ELSE NextFrame("video", "v_top")
    /\ UNCHANGED <<now, sleep_buffer, loaded, local_gap, applied, race_rest>>

\* lines 484, 639: "self._sleep_buffer += gap" reads the field
AddLoad(l, q) ==
    /\ loaded' = [loaded EXCEPT ![l] = sleep_buffer]
    /\ Goto(l, q)
    /\ UNCHANGED <<now, frame_ts, sleep_buffer, local_gap, handled, applied, writers,
                   race_rest>>

\* lines 484, 639: "self._sleep_buffer += gap" writes the sum back
AddStore(l, q) ==
    /\ sleep_buffer' = loaded[l] + local_gap[l] * 1000
    /\ applied' = applied + local_gap[l] * 1000
    /\ NextFrame(l, q)
    /\ Writes(l, "_sleep_buffer")
    /\ UNCHANGED <<now, frame_ts, loaded, local_gap, race_rest>>

RaceVideoAddLoad ==
    /\ loop["video"] = "v_add_load"
    /\ AddLoad("video", "v_add_store")

RaceVideoAddStore ==
    /\ loop["video"] = "v_add_store"
    /\ AddStore("video", "v_top")

\* lines 592, 623-628: _sync_audio_frame reads frame_ts and takes the gap
RaceAudioGap ==
    /\ loop["audio"] = "u_pull"
    /\ handled["audio"] < MaxFrames
    /\ frame_ts # FrameTsInit
    /\ \E f \in SyncFrames :
          IF f.timestamp < BogusBefore
          THEN NextFrame("audio", "u_pull") /\ UNCHANGED local_gap
          ELSE /\ local_gap' = [local_gap EXCEPT !["audio"] = Stamp(f) - frame_ts]
               /\ Goto("audio", "u_sync")
               /\ UNCHANGED handled
    /\ UNCHANGED <<now, frame_ts, sleep_buffer, loaded, applied, writers, race_rest>>

\* lines 630-638, 522: past 5 s either way clear_buffer calls
\* sync_camera_time, which writes frame_ts; a gap above 0 is to be added
RaceAudioSync ==
    /\ loop["audio"] = "u_sync"
    /\ IF Abs(local_gap["audio"]) > 5000
       THEN frame_ts' = now /\ Writes("audio", "frame_ts")
       ELSE UNCHANGED <<frame_ts, writers>>
    /\ IF local_gap["audio"] > 0
       THEN Goto("audio", "u_add_load") /\ UNCHANGED handled
       ELSE NextFrame("audio", "u_pull")
    /\ UNCHANGED <<now, sleep_buffer, loaded, local_gap, applied, race_rest>>

RaceAudioAddLoad ==
    /\ loop["audio"] = "u_add_load"
    /\ AddLoad("audio", "u_add_store")

RaceAudioAddStore ==
    /\ loop["audio"] = "u_add_store"
    /\ AddStore("audio", "u_pull")

NextRace ==
    \/ RaceTick
    \/ RaceVideoSyncTime
    \/ RaceSleepTest
    \/ RaceSleepLoad
    \/ RaceSleepStore
    \/ RaceVideoStamp
    \/ RaceVideoSlow
    \/ RaceVideoAddLoad
    \/ RaceVideoAddStore
    \/ RaceAudioGap
    \/ RaceAudioSync
    \/ RaceAudioAddLoad
    \/ RaceAudioAddStore

SpecRace == InitRace /\ [][NextRace]_vars

\* ------------------------------------------------- stopping the two loops
\* The video loop and the audio loop of one session run as two threads; the
\* caller who owns stream_state changes it while they run.

\* what the steps of the loops and of the owner leave alone
stop_rest == <<session_id, av_chan_id, caller_vars, mux_vars, sync_vars, cfg_vars,
               loaded, local_gap, handled, applied, writers, pipe_vars, run_vars,
               env_vars, bridge_vars,
                more_vars>>

\* an authenticated session whose loops are running
InitStop ==
    /\ state = AUTHENTICATION_SUCCEEDED
    /\ session_id = 0
    /\ av_chan_id = 0
    /\ pc = "idle"
    /\ fn = "_auth"
    /\ in_enter = TRUE
    /\ ret = "idle"
    /\ exc = "none"
    /\ exc_code = 0
    /\ calls = <<>>
    /\ entry = [state |-> DISCONNECTED, session_id |-> None, av_chan_id |-> None]
    /\ d_entry = [state |-> DISCONNECTED, session_id |-> None, av_chan_id |-> None]
    /\ d_from = 0
    /\ inp = NoInput
    /\ have_key_frame = FALSE
    /\ camera = [p2p_id |-> TRUE, dtls |-> FALSE]
    /\ prev_fn = "__init__"
    /\ LoopInit
    /\ MuxOff
    /\ SyncOff
    /\ preferred_frame_size = 0
    /\ ignore_res = None
    /\ loop = [l \in Loops |-> IF l = "video" THEN "v_loop" ELSE "u_loop"]
    /\ loaded = [l \in Loops |-> 0]
    /\ local_gap = [l \in Loops |-> 0]
    /\ handled = [l \in Loops |-> 0]
    /\ applied = 0
    /\ writers = [f \in Fields |-> {}]
    /\ stream_state \in StreamStates
    /\ after = [l \in Loops |-> 0]
    /\ ended = [l \in Loops |-> ""]
    /\ PipeOff
    /\ RunOff
    /\ EnvOff
    /\ BridgeOff
    /\ MoreOff

\* the loops are meant to run: the session is authenticated and the stream
\* state ss is above 1
Wanted(ss) == state = AUTHENTICATION_SUCCEEDED /\ ss > 1

\* loop l yields a frame: one more since the loops stopped being wanted, if
\* they are not
Yields(l) ==
    after' = IF Wanted(stream_state) \/ after[l] > 1
             THEN after
             ELSE [after EXCEPT ![l] = after[l] + 1]

\* loop l is over when the step has taken it to its end: how says whether it
\* returned, raised, was closed by its consumer, or left through its finally
Ends(l, how) ==
    ended' = IF loop'[l] = "done" THEN [ended EXCEPT ![l] = how] ELSE ended

\* the owner of stream_state changes it
StopOwner ==
    /\ \E ss \in StreamStates \ {stream_state} :
          /\ stream_state' = ss
          /\ after' = IF Wanted(ss) THEN [l \in Loops |-> 0] ELSE after
    /\ UNCHANGED <<state, have_key_frame, late, loop, ended, stop_rest>>

\* line 410: while self.should_stream(...)
StopVideoCheck ==
    /\ loop["video"] = "v_loop"
    /\ Goto("video", IF should_stream(stream_state) THEN "v_first_frame" ELSE "v_end")
    /\ UNCHANGED <<state, have_key_frame, late, stop_vars, stop_rest>>

\* lines 411-413, 440-451: before the connect timeout the pull follows; past
\* it the loop raises when have_key_frame is set, and else renegotiates the
\* frame size, sets have_key_frame and starts the next iteration
StopVideoFirstFrame ==
    /\ loop["video"] = "v_first_frame"
    /\ \E pass \in BOOLEAN, u \in Renegotiate :
          /\ late' = TimedOut(late, pass)
          /\ IF ~TimedOut(late, pass)
             THEN Goto("video", "v_recv") /\ UNCHANGED <<state, have_key_frame>>
             ELSE IF have_key_frame
                  THEN /\ state' = CONNECTING_FAILED
                       /\ Goto("video", "done")
                       /\ UNCHANGED have_key_frame
                  ELSE IF u = "error"
                       THEN Goto("video", "done") /\ UNCHANGED <<state, have_key_frame>>
                       ELSE /\ have_key_frame' = TRUE
                            /\ Goto("video", "v_loop")
                            /\ UNCHANGED state
    /\ Ends("video", "raise")
    /\ UNCHANGED <<stream_state, after, stop_rest>>

\* lines 415-435: a soft pull and a frame of unexpected size start the next
\* iteration, a hard error leaves the loop, any other frame is yielded
StopVideoRecv ==
    /\ loop["video"] = "v_recv"
    /\ \E p \in Pulls, f \in Frames, u \in Renegotiate :
          IF p # "frame"
          THEN /\ Goto("video", IF SoftPull(p) THEN "v_loop" ELSE "done")
               /\ UNCHANGED <<have_key_frame, late, after>>
          ELSE IF f.frame_size \notin valid_frame_size
               THEN /\ IF RenegotiateOnSize(have_key_frame) /\ u = "error"
                       THEN Goto("video", "done") /\ UNCHANGED have_key_frame
                       ELSE Goto("video", "v_loop") /\ have_key_frame' = FALSE
                    /\ UNCHANGED <<late, after>>
               ELSE /\ late' = IF have_key_frame THEN FALSE ELSE late
                    /\ have_key_frame' = (have_key_frame \/ f.keyframe)
                    /\ Goto("video", "v_yield")
                    /\ Yields("video")
    /\ Ends("video", "raise")
    /\ UNCHANGED <<state, stream_state, stop_rest>>

\* line 435: the consumer asks for the next frame, or closes the generator
StopVideoYield ==
    /\ loop["video"] = "v_yield"
    /\ \E resume \in BOOLEAN : Goto("video", IF resume THEN "v_loop" ELSE "done")
    /\ Ends("video", "close")
    /\ UNCHANGED <<state, have_key_frame, late, stream_state, after, stop_rest>>

\* lines 437-438: self.state = CONNECTING_FAILED; return
StopVideoEnd ==
    /\ loop["video"] = "v_end"
    /\ state' = CONNECTING_FAILED
    /\ Goto("video", "done")
    /\ Ends("video", "return")
    /\ UNCHANGED <<have_key_frame, late, stream_state, after, stop_rest>>

\* line 581: while self.should_stream()
StopAudioCheck ==
    /\ loop["audio"] = "u_loop"
    /\ Goto("audio", IF should_stream(stream_state) THEN "u_recv" ELSE "u_finally")
    /\ UNCHANGED <<state, have_key_frame, late, stop_vars, stop_rest>>

\* lines 582-593: a soft pull starts the next iteration, a hard error goes to
\* the except and finally clauses, a frame is yielded
StopAudioRecv ==
    /\ loop["audio"] = "u_recv"
    /\ \E p \in Pulls :
          IF p # "frame"
          THEN /\ Goto("audio", IF SoftPull(p) THEN "u_loop" ELSE "u_finally")
               /\ UNCHANGED after
          ELSE Goto("audio", "u_yield") /\ Yields("audio")
    /\ UNCHANGED <<state, have_key_frame, late, stream_state, ended, stop_rest>>

\* lines 610-612: recv_audio_pipe writes the frame and asks for the next one,
\* or leaves its for loop, which closes the generator
StopAudioYield ==
    /\ loop["audio"] = "u_yield"
    /\ \E resume \in BOOLEAN : Goto("audio", IF resume THEN "u_loop" ELSE "u_finally")
    /\ UNCHANGED <<state, have_key_frame, late, stop_vars, stop_rest>>

\* lines 597-598: finally: self.state = CONNECTING_FAILED
StopAudioFinally ==
    /\ loop["audio"] = "u_finally"
    /\ state' = AudioFinallyState(state)
    /\ Goto("audio", "done")
    /\ Ends("audio", "finally")
    /\ UNCHANGED <<have_key_frame, late, stream_state, after, stop_rest>>

\* the steps of the thread that runs the video loop and consumes its frames
StopVideo ==
    \/ StopVideoCheck
    \/ StopVideoFirstFrame
    \/ StopVideoRecv
    \/ StopVideoYield
    \/ StopVideoEnd

\* the steps of the thread that runs the audio loop and consumes its frames
StopAudio ==
    \/ StopAudioCheck
    \/ StopAudioRecv
    \/ StopAudioYield
    \/ StopAudioFinally

NextStop ==
    \/ StopOwner
    \/ StopVideo
    \/ StopAudio

\* each thread keeps running; the owner need not do anything
SpecStop ==
    InitStop /\ [][NextStop]_vars /\ WF_vars(StopVideo) /\ WF_vars(StopAudio)

\* ------------------------------------- leaving the session while loops run
\* The thread that owns the session leaves its with block, and __exit__
\* (lines 355-356) calls _disconnect(), while the loops of the session are
\* still running in their threads.

\* the loops are running in an authenticated session
InitExit == InitStop

\* lines 355-356: __exit__ calls _disconnect()
ExitDisconnect ==
    /\ pc = "idle"
    /\ fn = "_auth"
    /\ pc' = "d_begin"
    /\ fn' = "_disconnect"
    /\ prev_fn' = fn
    /\ ret' = "idle"
    /\ entry' = Snapshot
    /\ UNCHANGED <<state, session_id, av_chan_id, in_enter, exc, exc_code, calls,
                   d_entry, d_from, inp, have_key_frame, camera, loop_vars,
                   mux_vars, sync_vars, cfg_vars, side_vars>>

NextExit ==
    \/ ExitDisconnect
    \/ DisconnectChannel
    \/ DisconnectSession
    \/ DisconnectState
    \/ DisconnectReturn
    \/ StopOwner
    \/ StopVideo
    \/ StopAudio

SpecExit == InitExit /\ [][NextExit]_vars

\* ---------------------------------------------------------- the audio pipe
\* recv_audio_pipe runs in a thread of its own and writes the frames of the
\* audio sequence to a named pipe.  Another process reads the pipe, and the
\* video loop flushes it (flush_pipe).  The pipe holds PipeCap bytes.

\* what the steps on the pipe leave alone
pipe_rest == <<state, session_id, av_chan_id, have_key_frame, late, caller_vars,
               mux_vars, sync_vars, cfg_vars, race_vars, stop_vars, run_vars,
               env_vars, bridge_vars,
                more_vars>>

\* an authenticated session; a pipe file may be left from an earlier stream
InitPipe ==
    /\ state = AUTHENTICATION_SUCCEEDED
    /\ session_id = 0
    /\ av_chan_id = 0
    /\ pc = "idle"
    /\ fn = "_auth"
    /\ in_enter = TRUE
    /\ ret = "idle"
    /\ exc = "none"
    /\ exc_code = 0
    /\ calls = <<>>
    /\ entry = [state |-> DISCONNECTED, session_id |-> None, av_chan_id |-> None]
    /\ d_entry = [state |-> DISCONNECTED, session_id |-> None, av_chan_id |-> None]
    /\ d_from = 0
    /\ inp = NoInput
    /\ have_key_frame = FALSE
    /\ camera = [p2p_id |-> TRUE, dtls |-> FALSE]
    /\ prev_fn = "__init__"
    /\ LoopInit
    /\ MuxOff
    /\ SyncOff
    /\ preferred_frame_size = 0
    /\ ignore_res = None
    /\ RaceOff
    /\ StopOff
    /\ sink = "off"
    /\ audio_pipe_ready = FALSE
    /\ fifo_exists \in BOOLEAN
    /\ fd_open = FALSE
    /\ fd_blocking = TRUE
    /\ reader = "none"
    /\ data = <<>>
    /\ written = <<>>
    /\ taken = <<>>
    /\ offered = 0
    /\ frame_len = 0
    /\ dropped = 0
    /\ sink_exc = "none"
    /\ flushed = NoFlush
    /\ RunOff
    /\ EnvOff
    /\ BridgeOff
    /\ MoreOff

\* the first k bytes of the frame j
Bytes(j, k) == [i \in 1..k |-> <<j, i>>]

\* the pipe gives its k oldest bytes to a reader
Read(k) ==
    /\ data' = SubSeq(data, k + 1, Len(data))
    /\ taken' = taken \o SubSeq(data, 1, k)

\* recv_audio_pipe is called
SinkCall ==
    /\ sink = "off"
    /\ sink' = "mkfifo"
    /\ UNCHANGED <<audio_pipe_ready, fifo_exists, fd_open, fd_blocking, reader, data,
                   written, taken, offered, frame_len, dropped, sink_exc, flushed,
                   pipe_rest>>

\* lines 604-605: os.mkfifo, FileExistsError suppressed; any other error
\* leaves recv_audio_pipe
SinkMkfifo ==
    /\ sink = "mkfifo"
    /\ \E ok \in BOOLEAN :
          IF ok \/ fifo_exists
          THEN fifo_exists' = TRUE /\ sink' = "open" /\ UNCHANGED sink_exc
          ELSE fifo_exists' = FALSE /\ sink' = "done" /\ sink_exc' = "other"
    /\ UNCHANGED <<audio_pipe_ready, fd_open, fd_blocking, reader, data,
                   written, taken, offered, frame_len, dropped, flushed, pipe_rest>>

\* line 607: open(fifo_path, "wb", buffering=0), which waits for a reader of
\* the pipe, or fails with an IOError
SinkOpen ==
    /\ sink = "open"
    /\ \E ok \in BOOLEAN :
          IF ok
          THEN /\ reader = "open"
               /\ fd_open' = TRUE
               /\ sink' = "set_blocking"
               /\ UNCHANGED sink_exc
          ELSE /\ sink_exc' = "EIO"
               /\ sink' = "leave"
               /\ UNCHANGED fd_open
    /\ UNCHANGED <<audio_pipe_ready, fifo_exists, fd_blocking, reader, data, written,
                   taken, offered, frame_len, dropped, flushed, pipe_rest>>

\* variant: the descriptor is left in the mode it was opened in
SetBlocking_Kept(b) == b

\* line 608: os.set_blocking(audio_pipe.fileno(), False)
SetBlocking(b) == FALSE

\* lines 608-609: the descriptor is made non-blocking and the flag set
SinkReady ==
    /\ sink = "set_blocking"
    /\ fd_blocking' = SetBlocking(fd_blocking)
    /\ audio_pipe_ready' = TRUE
    /\ sink' = "next"
    /\ UNCHANGED <<fifo_exists, fd_open, reader, data, written, taken, offered,
                   frame_len, dropped, sink_exc, flushed, pipe_rest>>

\* the lengths of the audio frames
FrameLens == 1..MaxLen

\* line 610: the for loop asks the audio sequence for a frame; the sequence
\* gives one, ends, or raises
SinkNext ==
    /\ sink = "next"
    /\ \/ /\ offered < MaxWrites
          /\ \E n \in FrameLens : frame_len' = n
          /\ offered' = offered + 1
          /\ sink' = "write"
          /\ UNCHANGED sink_exc
       \/ /\ \E e \in {"none", "other"} : sink_exc' = e
          /\ sink' = "leave"
          /\ UNCHANGED <<offered, frame_len>>
    /\ UNCHANGED <<audio_pipe_ready, fifo_exists, fd_open, fd_blocking, reader, data,
                   written, taken, dropped, flushed, pipe_rest>>

\* a write of n bytes waits when the descriptor is blocking and the pipe has
\* no room for them
WriteWaits(blocking, free, n) == blocking /\ free < n

\* lines 611-612: audio_pipe.write(frame_data) under
\* suppress(BlockingIOError).  Without a reader the write fails with EPIPE.
\* With room for the frame it is written whole; without, a non-blocking
\* write takes what fits or nothing, and a blocking one waits.
SinkWrite ==
    /\ sink \in {"write", "blocked"}
    /\ LET free == PipeCap - Len(data)
       IN  IF reader = "closed"
           THEN /\ sink_exc' = "EPIPE"
                /\ sink' = "leave"
                /\ UNCHANGED <<data, written, dropped>>
           ELSE IF WriteWaits(fd_blocking, free, frame_len)
                THEN /\ sink' = "blocked"
                     /\ UNCHANGED <<data, written, dropped, sink_exc>>
                ELSE \E w \in {0, free, frame_len}, ok \in BOOLEAN :
                        /\ w <= free
                        /\ w <= frame_len
                        /\ free >= frame_len => w = frame_len
                        /\ IF ok
                           THEN /\ data' = data \o Bytes(offered, w)
                                /\ written' = written \o Bytes(offered, w)
                                /\ dropped' = dropped + (frame_len - w)
                                /\ sink' = "next"
                                /\ UNCHANGED sink_exc
                           ELSE /\ sink_exc' = "EIO"
                                /\ sink' = "leave"
                                /\ UNCHANGED <<data, written, dropped>>
    /\ UNCHANGED <<audio_pipe_ready, fifo_exists, fd_open, fd_blocking, reader,
                   taken, offered, frame_len, flushed, pipe_rest>>

\* lines 607, 614-618: the with statement closes the pipe; an IOError is
\* taken by the except clause (logged unless EPIPE); the finally clause clears
\* the flag
SinkLeave ==
    /\ sink = "leave"
    /\ fd_open' = FALSE
    /\ audio_pipe_ready' = FALSE
    /\ sink' = "unlink"
    /\ UNCHANGED <<fifo_exists, fd_blocking, reader, data, written, taken, offered,
                   frame_len, dropped, sink_exc, flushed, pipe_rest>>

\* lines 619-621: os.unlink, FileNotFoundError suppressed; an exception that
\* is not an IOError goes on to the caller
SinkUnlink ==
    /\ sink = "unlink"
    /\ fifo_exists' = FALSE
    /\ sink' = "done"
    /\ UNCHANGED <<audio_pipe_ready, fd_open, fd_blocking, reader, data, written,
                   taken, offered, frame_len, dropped, sink_exc, flushed, pipe_rest>>

\* the consumer of the pipe opens it for reading
ReaderOpen ==
    /\ reader = "none"
    /\ fifo_exists
    /\ reader' = "open"
    /\ UNCHANGED <<sink, audio_pipe_ready, fifo_exists, fd_open, fd_blocking, data,
                   written, taken, offered, frame_len, dropped, sink_exc, flushed,
                   pipe_rest>>

\* the consumer reads some of the bytes in the pipe
ReaderRead ==
    /\ reader = "open"
    /\ \E k \in 1..Len(data) : Read(k)
    /\ UNCHANGED <<sink, audio_pipe_ready, fifo_exists, fd_open, fd_blocking, reader,
                   written, offered, frame_len, dropped, sink_exc, flushed, pipe_rest>>

\* the consumer closes its end
ReaderClose ==
    /\ reader = "open"
    /\ reader' = "closed"
    /\ UNCHANGED <<sink, audio_pipe_ready, fifo_exists, fd_open, fd_blocking, data,
                   written, taken, offered, frame_len, dropped, sink_exc, flushed,
                   pipe_rest>>

\* the pipe file is deleted from outside while recv_audio_pipe has it open
ExternalUnlink ==
    /\ fd_open
    /\ fifo_exists
    /\ fifo_exists' = FALSE
    /\ UNCHANGED <<sink, audio_pipe_ready, fd_open, fd_blocking, reader, data,
                   written, taken, offered, frame_len, dropped, sink_exc, flushed,
                   pipe_rest>>

\* variant: flush_pipe does not look at the flag
FlushSkips_Never(ready) == FALSE

\* lines 561-562: if pipe_type == "audio" and not self.audio_pipe_ready:
\* return
FlushSkips(ready) == ~ready

\* lines 560-576: flush_pipe("audio", gap) returns at once when it skips;
\* else it opens the pipe (an error is logged) and reads it without
\* blocking: once with a gap, until it is empty without
FlushPipe ==
    /\ flushed.n < MaxOps
    /\ \E gapped \in BOOLEAN, k \in 0..Len(data) :
          IF FlushSkips(audio_pipe_ready) \/ ~fifo_exists
          THEN /\ flushed' = [n |-> flushed.n + 1, ready |-> audio_pipe_ready,
                               opened |-> FALSE, read |-> 0]
               /\ UNCHANGED <<data, taken>>
          ELSE /\ k = Len(data) \/ (gapped /\ k >= 1)
               /\ flushed' = [n |-> flushed.n + 1, ready |-> audio_pipe_ready,
                               opened |-> TRUE, read |-> k]
               /\ Read(k)
    /\ UNCHANGED <<sink, audio_pipe_ready, fifo_exists, fd_open, fd_blocking, reader,
                   written, offered, frame_len, dropped, sink_exc, pipe_rest>>

NextPipe ==
    \/ SinkCall
    \/ SinkMkfifo
    \/ SinkOpen
    \/ SinkReady
    \/ SinkNext
    \/ SinkWrite
    \/ SinkLeave
    \/ SinkUnlink
    \/ ReaderOpen
    \/ ReaderRead
    \/ ReaderClose
    \/ ExternalUnlink
    \/ FlushPipe

SpecPipe == InitPipe /\ [][NextPipe]_vars

\* ------------------------------------------------- the transport runtime
\* One WyzeIOTC object serves the whole process: it initializes and
\* deinitializes the vendor runtime and makes the sessions of the streams,
\* which are all built with one account object (wyze_bridge.py, lines 84,
\* 97, 105, 123).

\* a session that was constructed and not used
SessionOff ==
    /\ state = DISCONNECTED
    /\ session_id = None
    /\ av_chan_id = None
    /\ pc = "idle"
    /\ fn = "__init__"
    /\ in_enter = FALSE
    /\ ret = "idle"
    /\ exc = "none"
    /\ exc_code = 0
    /\ calls = <<>>
    /\ entry = [state |-> DISCONNECTED, session_id |-> None, av_chan_id |-> None]
    /\ d_entry = [state |-> DISCONNECTED, session_id |-> None, av_chan_id |-> None]
    /\ d_from = 0
    /\ inp = NoInput
    /\ have_key_frame = FALSE
    /\ camera = [p2p_id |-> TRUE, dtls |-> FALSE]
    /\ prev_fn = "__init__"
    /\ LoopInit
    /\ MuxOff
    /\ SyncOff
    /\ preferred_frame_size = 0
    /\ ignore_res = None

\* what the steps of the runtime leave alone
run_rest == <<state, session_id, av_chan_id, have_key_frame, late, caller_vars,
              mux_vars, sync_vars, cfg_vars, race_vars, stop_vars, pipe_vars,
              env_vars, bridge_vars,
               more_vars>>

\* lines 79-93: a WyzeIOTC object was constructed
InitRuntime ==
    /\ SessionOff
    /\ RaceOff
    /\ StopOff
    /\ PipeOff
    /\ RunOff
    /\ EnvOff
    /\ BridgeOff
    /\ MoreOff

\* a call of the vendor function f and whether it succeeded
VendorCall(f, ok) == [fn |-> f, ok |-> ok]

\* line 105: self.initd = True, before the vendor calls are made
InitdAfter(ok1, ok2) == TRUE

\* lines 95-116: initialize() returns at once when initd is set; else it sets
\* initd, calls iotc_initialize and, if that succeeded, av_initialize; a
\* negative result of either raises TutkError
Initialize ==
    /\ asked < MaxCalls
    /\ asked' = asked + 1
    /\ IF initd
       THEN UNCHANGED <<initd, vendor>>
       ELSE \E ok1, ok2 \in BOOLEAN :
               /\ initd' = InitdAfter(ok1, ok2)
               /\ vendor' = IF ok1
                             THEN vendor \o <<VendorCall("iotc_initialize", TRUE),
                                              VendorCall("av_initialize", ok2)>>
                             ELSE Append(vendor, VendorCall("iotc_initialize", FALSE))
    /\ UNCHANGED <<phone_id, sessions, run_rest>>

\* lines 118-124: deinitialize() calls av_deinitialize and iotc_deinitialize
Deinitialize ==
    /\ asked < MaxCalls
    /\ asked' = asked + 1
    /\ vendor' = vendor \o <<VendorCall("av_deinitialize", TRUE),
                              VendorCall("iotc_deinitialize", TRUE)>>
    /\ UNCHANGED <<initd, phone_id, sessions, run_rest>>

\* line 140: stream.user.phone_id[2:]
SubstreamPhoneId(id) == SubSeq(id, 3, Len(id))

\* lines 138-150: session(stream, state) for a main stream or a substream;
\* for a substream the phone_id of stream.user is replaced first
Session ==
    /\ Len(sessions) < MaxSessions
    /\ \E substream \in BOOLEAN :
          /\ phone_id' = IF substream THEN SubstreamPhoneId(phone_id) ELSE phone_id
          /\ sessions' = Append(sessions, substream)
    /\ UNCHANGED <<initd, asked, vendor, run_rest>>

NextRuntime ==
    \/ Initialize
    \/ Deinitialize
    \/ Session

SpecRuntime == InitRuntime /\ [][NextRuntime]_vars

\* --------------------------------------------------------------- env_bool
\* Strings are sequences of characters.

\* the characters of the values the variable is set to
Chars == {"n", "N", "o", "x", " ", "'"}

\* the strings of at most n characters
RECURSIVE Strings(_)
Strings(n) ==
    IF n = 0
    THEN {<<>>}
    ELSE Strings(n - 1) \cup {Append(v, c) : v \in {w \in Strings(n - 1) : Len(w) = n - 1},
                                             c \in Chars}

\* the values the variable is set to: the short strings, and some words
EnvValues ==
    Strings(MaxStr) \cup
    {<<"n", "o", "n", "e">>, <<"N", "o", "n", "e">>, <<" ", "N", "O", "N", "E", " ">>,
     <<"f", "a", "l", "s", "e">>, <<"F", "A", "L", "S", "E">>,
     <<"'", "F", "a", "l", "s", "e", "'">>, <<"t", "r", "u", "e">>,
     <<"T", "r", "u", "e">>, <<"f", "a", "l", "s", "e", "x">>, <<"0">>}

\* bridge_utils.py, line 22: .strip("'\" \n\t\r")
StripChars == {"'", "\"", " ", "\n", "\t", "\r"}

\* str.strip(chars): the characters of chars are taken off both ends
RECURSIVE Strip(_)
Strip(v) ==
    IF v = <<>>
    THEN v
    ELSE IF Head(v) \in StripChars
         THEN Strip(Tail(v))
         ELSE IF v[Len(v)] \in StripChars
              THEN Strip(SubSeq(v, 1, Len(v) - 1))
              ELSE v

\* the lower case of the upper case letters of the values
LowerOf == [c \in {"N", "O", "E", "F", "A", "L", "S", "T"} |->
              CASE c = "N" -> "n" [] c = "O" -> "o" [] c = "E" -> "e"
                [] c = "F" -> "f" [] c = "A" -> "a" [] c = "L" -> "l"
                [] c = "S" -> "s" [] c = "T" -> "t"]

\* str.lower()
Lower(v) == [i \in 1..Len(v) |-> IF v[i] \in DOMAIN LowerOf THEN LowerOf[v[i]] ELSE v[i]]

\* variant: "none" is not among the words
FalseWords_NoNone == {<<"n", "o">>, <<"f", "a", "l", "s", "e">>}

\* bridge_utils.py, line 23: {"no", "none", "false"}
FalseWords == {<<"n", "o">>, <<"n", "o", "n", "e">>, <<"f", "a", "l", "s", "e">>}

\* bool(v) of a string v
Truthy(v) == v # <<>>

\* "a or b" of two strings
Or(a, b) == IF Truthy(a) THEN a ELSE b

\* bridge_utils.py, lines 20-38: env_bool(env, false, true) without a style,
\* for the value v of the variable
env_bool(v, false, true) ==
    LET found == Strip(IF v = Unset THEN <<>> ELSE v)
        value == IF Lower(found) \in FalseWords THEN <<>> ELSE found
    IN  IF Truthy(true) /\ Truthy(value) THEN true ELSE Or(Lower(value), false)

\* what the steps on the environment leave alone
env_rest == <<state, session_id, av_chan_id, have_key_frame, late, caller_vars,
              mux_vars, sync_vars, cfg_vars, race_vars, stop_vars, pipe_vars,
              run_vars, bridge_vars,
               more_vars>>

\* a process with the variable unset or set
InitEnv ==
    /\ SessionOff
    /\ RaceOff
    /\ StopOff
    /\ PipeOff
    /\ RunOff
    /\ BridgeOff
    /\ MoreOff
    /\ environ \in EnvValues \cup {Unset}
    /\ env_result = NoResult

\* the variable is set to another value, or unset
SetEnv ==
    /\ \E v \in EnvValues \cup {Unset} : v # environ /\ environ' = v
    /\ env_result' = NoResult
    /\ UNCHANGED env_rest

\* env_bool(name) is called with no default and no style
EnvBool ==
    /\ env_result' = [of |-> environ, value |-> env_bool(environ, <<>>, <<>>)]
    /\ UNCHANGED <<environ, env_rest>>

NextEnv ==
    \/ SetEnv
    \/ EnvBool

SpecEnv == InitEnv /\ [][NextEnv]_vars

\* ------------------------------------------------- the API-only bridge
\* wyze_api_bridge.py, line 54: what health() can find in self.api.auth: no
\* auth object, one whose access_token is None, one with an access token
Auths == {"none", "no_token", "token"}

\* lines 49 and 55: self.mqtt_client is None, or a client that is_connected()
\* or is not
Clients == {"none", "connected", "disconnected"}

\* line 56: api.get_cameras() returns None or a list of this many cameras
CameraLists == {None} \cup (0..MaxCams)

\* line 111: the values of MQTT_ENABLED the bridge is started with
MqttEnvs == {Unset, <<"t", "r", "u", "e">>, <<"f", "a", "l", "s", "e">>}

\* what the steps of the bridge leave alone
bridge_rest == <<state, session_id, av_chan_id, have_key_frame, late,
                 caller_vars, mux_vars, sync_vars, cfg_vars, race_vars,
                 stop_vars, pipe_vars, run_vars, env_result, more_vars>>

\* lines 37-50: a bridge was constructed, in a process with MQTT_ENABLED unset
\* or set
InitBridge ==
    /\ SessionOff
    /\ RaceOff
    /\ StopOff
    /\ PipeOff
    /\ RunOff
    /\ BridgeOff
    /\ MoreOff
    /\ environ \in MqttEnvs
    /\ env_result = NoResult

\* lines 65-95 and 110-126: run() or restart()'s _initialize: login, camera
\* discovery, then with fewer than one camera SIGINT, whose handler clean_up
\* exits as running is false, else setup_mqtt and running = True. In
\* setup_mqtt the client is the one MqttController.start() returns (None
\* with MQTT off in the config), or stays as it was when MQTT_ENABLED is
\* falsy or the controller raises.
BridgeRun ==
    /\ phase \in {"new", "stopped"}
    /\ \E a \in Auths, n \in 0..MaxCams, c \in Clients :
        /\ api_auth' = a
        /\ cameras' = n
        /\ IF n < 1
           THEN /\ phase' = "exited"
                /\ UNCHANGED <<running, mqtt_client>>
           ELSE /\ phase' = "running"
                /\ running' = TRUE
                /\ \/ mqtt_client' = mqtt_client
                   \/ /\ Truthy(env_bool(environ, <<>>, <<>>))
                      /\ mqtt_client' = c
    /\ UNCHANGED <<health, environ, bridge_rest>>

\* lines 176-185: stop(): running = False, the controller is stopped and the
\* client, if there is one, disconnected
BridgeStop ==
    /\ phase = "running"
    /\ running' = FALSE
    /\ phase' = "stopped"
    /\ mqtt_client' = IF mqtt_client = "none" THEN "none" ELSE "disconnected"
    /\ UNCHANGED <<api_auth, cameras, health, environ, bridge_rest>>

\* line 55: the client's network loop loses or regains the broker
MqttChange ==
    /\ mqtt_client # "none"
    /\ mqtt_client' = IF mqtt_client = "connected" THEN "disconnected"
                                                   ELSE "connected"
    /\ UNCHANGED <<running, phase, api_auth, cameras, health, environ,
                   bridge_rest>>

\* lines 54 and 56: the api logs in or out, or its camera list changes, from
\* the web interface or a token refresh
ApiChange ==
    /\ \E a \in Auths, n \in CameraLists :
        /\ <<a, n>> # <<api_auth, cameras>>
        /\ api_auth' = a
        /\ cameras' = n
    /\ UNCHANGED <<running, phase, mqtt_client, health, environ, bridge_rest>>

\* line 54: api.auth is not None and api.auth.access_token is not None
WyzeAuthed_AnyAuth(a) == a # "none"

WyzeAuthed(a) == a = "token"

\* line 55: (client is not None and client.is_connected()) if client else False
MqttConnected(c) == IF c # "none" THEN c # "none" /\ c = "connected" ELSE FALSE

\* line 56: len(api.get_cameras() or [])
TotalCameras(n) == IF n = None \/ n = 0 THEN 0 ELSE n

\* lines 52-63: the dict health() returns
HealthOf(a, c, n) ==
    [wyze_authed |-> WyzeAuthed(a), mqtt_connected |-> MqttConnected(c),
     total_cameras |-> TotalCameras(n), api_only_mode |-> TRUE]

\* lines 52-63: health() is called, in any state of the bridge
Health ==
    /\ health.n < MaxOps
    /\ health' = [n |-> health.n + 1, phase |-> phase, auth |-> api_auth,
                  client |-> mqtt_client,
                  result |-> HealthOf(api_auth, mqtt_client, cameras)]
    /\ UNCHANGED <<running, phase, api_auth, mqtt_client, cameras, environ,
                   bridge_rest>>

NextBridge ==
    \/ BridgeRun
    \/ BridgeStop
    \/ MqttChange
    \/ ApiChange
    \/ Health

SpecBridge == InitBridge /\ [][NextBridge]_vars

\* ------------------------------------------------- sustained drift
\* The video loop handles frame after frame with the same gap between the
\* clock and the frame's timestamp: each iteration reads sleep_interval
\* (line 410) and passes the frame to _video_frame_slow (line 430). The clock
\* and the timestamps advance together, so every iteration sees the offsets
\* of the first.

\* every variable of the session and of the parts modelled before this one
old_vars == <<state, session_id, av_chan_id, have_key_frame, late, caller_vars,
              mux_vars, sync_vars, cfg_vars, race_vars, stop_vars, pipe_vars,
              run_vars, env_vars, bridge_vars>>

\* a new session, and the parts modelled before this one not started
OldOff ==
    /\ SessionOff
    /\ RaceOff
    /\ StopOff
    /\ PipeOff
    /\ RunOff
    /\ EnvOff
    /\ BridgeOff

\* what the iterations leave alone
drift_rest == <<state, session_id, av_chan_id, have_key_frame, late, caller_vars,
                mux_vars, cfg_vars, now, preferred_frame_rate, low_latency, eff,
                race_vars, stop_vars, pipe_vars, run_vars, env_vars, bridge_vars,
                drift_others>>

\* an authenticated session at some frame rate, whose video loop is about to
\* start, and the frame every iteration will handle
InitDrift ==
    /\ state = AUTHENTICATION_SUCCEEDED
    /\ session_id = 0
    /\ av_chan_id = 0
    /\ pc = "idle"
    /\ fn = "_auth"
    /\ in_enter = TRUE
    /\ ret = "idle"
    /\ exc = "none"
    /\ exc_code = 0
    /\ calls = <<>>
    /\ entry = [state |-> DISCONNECTED, session_id |-> None, av_chan_id |-> None]
    /\ d_entry = [state |-> DISCONNECTED, session_id |-> None, av_chan_id |-> None]
    /\ d_from = 0
    /\ inp = NoInput
    /\ have_key_frame = TRUE
    /\ camera = [p2p_id |-> TRUE, dtls |-> FALSE]
    /\ prev_fn = "_connect"
    /\ LoopInit
    /\ MuxOff
    /\ preferred_frame_size = 0
    /\ ignore_res = None
    /\ now \in Instants
    /\ frame_ts = now
    /\ sleep_buffer = 0
    /\ preferred_frame_rate \in FrameRates
    /\ low_latency \in BOOLEAN
    /\ eff = NoEffect
    /\ RaceOff
    /\ StopOff
    /\ PipeOff
    /\ RunOff
    /\ EnvOff
    /\ BridgeOff
    /\ DriftOthersOff
    /\ \E f \in SyncFrames : drift = [NoDrift EXCEPT !.frame = f, !.at = "read"]

\* line 410: the iteration starts by reading sleep_interval
DriftRead ==
    /\ drift.at = "read"
    /\ drift.n < MaxIters
    /\ sleep_buffer' = sleep_interval.sleep_buffer
    /\ drift' = [drift EXCEPT !.at = "frame"]
    /\ UNCHANGED <<frame_ts, drift_rest>>

\* line 430: the frame of the iteration passes _video_frame_slow
DriftFrame ==
    /\ drift.at = "frame"
    /\ LET r == video_frame_slow(drift.frame)
       IN  /\ frame_ts' = r.frame_ts
           /\ sleep_buffer' = sleep_buffer + r.added
           /\ drift' = [drift EXCEPT !.at = "read", !.n = drift.n + 1,
                                     !.prev = drift.end,
                                     !.end = sleep_buffer + r.added]
    /\ UNCHANGED drift_rest

\* the drift is over: from now on the frames carry the time of the clock
DriftSettle ==
    /\ drift.at = "read"
    /\ ~drift.settled
    /\ drift.n >= 1
    /\ \E f \in SyncFrames :
          /\ Stamp(f) = now
          /\ drift' = [drift EXCEPT !.frame = f, !.settled = TRUE, !.n = 0]
    /\ UNCHANGED <<frame_ts, sleep_buffer, drift_rest>>

NextDrift ==
    \/ DriftRead
    \/ DriftFrame
    \/ DriftSettle

SpecDrift == InitDrift /\ [][NextDrift]_vars

\* ------------------------------------------------- the purge threads
\* ffmpeg.py, lines 188-234, and threads.py: purge_old starts a thread that
\* deletes old files under base_path; wait_for_purges joins the threads of
\* the registry purges_running.

\* what the purge steps leave alone
purge_rest == <<old_vars, purge_others>>

\* line 188: the module was imported
InitPurge ==
    /\ OldOff
    /\ PurgeOthersOff
    /\ PurgeOff

\* the purge threads that have not finished
AlivePurges == {id \in 1..Len(purge_threads) : purge_threads[id].alive}

\* lines 223-225: the registry after purge_old has started thread id for p:
\* the thread is constructed with the registry and its key and started, and
\* no statement stores it in the registry
Registered(reg, p, id) == reg

\* lines 190-225: purge_old(base_path, ...) returns at once when the registry
\* has a thread for base_path, and else starts a new thread
PurgeOld ==
    /\ purge_log.calls < MaxPurges
    /\ \E p \in Paths :
          IF purges_running[p] # None
          THEN UNCHANGED <<purges_running, purge_threads>>
          ELSE /\ purge_threads' = Append(purge_threads, [path |-> p, alive |-> TRUE])
               /\ purges_running' = Registered(purges_running, p, Len(purge_threads) + 1)
    /\ purge_log' = [purge_log EXCEPT !.calls = @ + 1]
    /\ UNCHANGED purge_rest

\* threads.py, lines 10-15: the target of a purge thread returns and the
\* finally clause pops the thread's key from the registry
PurgeFinish ==
    /\ \E id \in AlivePurges :
          /\ purge_threads' = [purge_threads EXCEPT ![id].alive = FALSE]
          /\ purges_running' = [purges_running EXCEPT ![purge_threads[id].path] = None]
    /\ UNCHANGED <<purge_log, purge_rest>>

\* lines 227-234: wait_for_purges joins every thread of the registry, each
\* for at most 30 seconds, in which the thread finishes or does not, and
\* clears the registry
WaitForPurges ==
    /\ purge_log.waits < MaxOps
    /\ LET joined == {purges_running[p] : p \in Paths} \ {None}
       IN  /\ \E done \in SUBSET (joined \cap AlivePurges) :
                purge_threads' = [id \in 1..Len(purge_threads) |->
                                     IF id \in done
                                     THEN [purge_threads[id] EXCEPT !.alive = FALSE]
                                     ELSE purge_threads[id]]
           /\ purge_log' = [purge_log EXCEPT !.waits = @ + 1, !.joined = joined]
    /\ purges_running' = [p \in Paths |-> None]
    /\ UNCHANGED purge_rest

NextPurge ==
    \/ PurgeOld
    \/ PurgeFinish
    \/ WaitForPurges

SpecPurge == InitPurge /\ [][NextPurge]_vars

\* ------------------------------------------------- the event pipe
\* mtx_server.py, lines 86 and 126: MediaMTX runs
\* bash -c 'echo $MTX_PATH,<event>! > /tmp/mtx_event' for the events of a path,
\* which writes "uri,event!" and a newline; RtspEvent (mtx_event.py) reads the
\* pipe in pieces of up to 4096 bytes.

\* what the steps on the event pipe leave alone
event_rest == <<old_vars, event_others>>

\* the messages written: an on-demand start and a read event for the stream
\* "a", a start for "x", which is a path but no stream, and a message
\* without a comma
Messages == {<<"a", ",", "s">>, <<"a", ",", "r">>, <<"x", ",", "s">>, <<"a", "s">>}

\* the uris self.streams has a stream for
KnownUris == {<<"a">>}

\* mtx_event.py, lines 20-24: an RtspEvent was constructed
InitEvent ==
    /\ OldOff
    /\ EventOthersOff
    /\ EventOff

\* mtx_server.py, lines 86, 126: echo writes the message, "!" and a newline
EventWrite ==
    /\ Len(event_log.sent) < MaxMsgs
    /\ \E m \in Messages :
          /\ event_stream' = event_stream \o m \o <<"!", "\n">>
          /\ event_log' = [event_log EXCEPT !.sent = Append(@, m)]
    /\ UNCHANGED <<event_buf, dispatched, event_rest>>

\* line 49: data.split("!")
RECURSIVE SplitBang(_)
SplitBang(d) ==
    IF d = <<>>
    THEN << <<>> >>
    ELSE LET rest == SplitBang(Tail(d))
         IN  IF Head(d) = "!"
             THEN << <<>> >> \o rest
             ELSE << <<Head(d)>> \o rest[1] >> \o Tail(rest)

\* str.strip(): whitespace is taken off both ends
RECURSIVE StripSpace(_)
StripSpace(v) ==
    IF v = <<>>
    THEN v
    ELSE IF Head(v) \in {" ", "\n", "\t", "\r"}
         THEN StripSpace(Tail(v))
         ELSE IF v[Len(v)] \in {" ", "\n", "\t", "\r"}
              THEN StripSpace(SubSeq(v, 1, Len(v) - 1))
              ELSE v

\* lines 58-79: what log_event does with the message m: a message that does
\* not split into uri and event at one comma is logged and dropped (60-64);
\* "s" is start, which calls self.streams.get(uri).start() (70-71) and raises
\* when there is no such stream; a read event touches no stream (74-75)
Handling(m) ==
    LET commas == {i \in 1..Len(m) : m[i] = ","}
    IN  IF Cardinality(commas) # 1
        THEN "malformed"
        ELSE LET at == CHOOSE i \in commas : TRUE
                 uri == SubSeq(m, 1, at - 1)
                 event == StripSpace(SubSeq(m, at + 1, Len(m)))
             IN  IF event = <<"s">> /\ uri \notin KnownUris THEN "raises" ELSE "ok"

\* variant: what was held back from the read before is forgotten
Joined_Dropped(b, first) == first

\* lines 50-51: the first piece, with what was held back in front of it
Joined(b, first) == b \o first

\* lines 48-56: process_data(data) with b in self.buf: the messages passed to
\* log_event, in order, whether one of them raised, which ends the method
\* there, and the buf that is left
process_data(b, d) ==
    LET pieces == SplitBang(d)
        messages == IF b # <<>>
                    THEN [pieces EXCEPT ![1] = Joined(b, pieces[1])]
                    ELSE pieces
        complete == [i \in 1..(Len(messages) - 1) |-> StripSpace(messages[i])]
        failing == {i \in 1..Len(complete) : Handling(complete[i]) = "raises"}
        halt == IF failing = {} THEN 0
                ELSE CHOOSE i \in failing : \A j \in failing : i <= j
    IN  IF halt = 0
        THEN [passed |-> complete, raised |-> FALSE,
              buf |-> StripSpace(messages[Len(messages)])]
        ELSE [passed |-> SubSeq(complete, 1, halt), raised |-> TRUE, buf |-> <<>>]

\* lines 35-46: read(): some of the bytes in the pipe are read and processed;
\* an exception of a handler is logged by the except clause of line 45
EventRead ==
    /\ event_stream # <<>>
    /\ \E k \in 1..Len(event_stream) :
          LET r == process_data(event_buf, SubSeq(event_stream, 1, k))
          IN  /\ event_stream' = SubSeq(event_stream, k + 1, Len(event_stream))
              /\ event_buf' = r.buf
              /\ dispatched' = dispatched \o r.passed
              /\ event_log' = [event_log EXCEPT !.read = @ + k, !.reads = @ + 1,
                                                !.raised = r.raised]
    /\ UNCHANGED event_rest

NextEvent ==
    \/ EventWrite
    \/ EventRead

SpecEvent == InitEvent /\ [][NextEvent]_vars

\* ------------------------------------------------- the media server
\* mtx_server.py, lines 145-170, and its callers in wyze_bridge.py, lines
\* 57-80. The server is a record of sub_process and of the processes spawned
\* so far; each call is taken as a whole, one call after the other.

\* what the steps on the media server leave alone
mtx_rest == <<old_vars, mtx_others>>

\* mtx_server.py, line 76: no subprocess is tracked
InitMtx ==
    /\ OldOff
    /\ MtxOthersOff
    /\ MtxOff

\* the server as the methods see it
Server == [sub_process |-> sub_process, procs |-> procs]

\* the processes that run
Alive(ps) == {i \in 1..Len(ps) : ps[i] = "running"}

\* lines 145-152: start(): nothing when a subprocess is tracked, else Popen
start(m) ==
    IF m.sub_process # 0
    THEN m
    ELSE [sub_process |-> Len(m.procs) + 1, procs |-> Append(m.procs, "running")]

\* variant: the subprocess is forgotten while it runs
stop_Forgets(m) ==
    IF m.sub_process = 0 THEN m ELSE [m EXCEPT !.sub_process = 0]

\* lines 154-161: stop(): a subprocess that still runs gets SIGTERM and is
\* waited for (communicate() returns when it has exited); sub_process is None
stop(m) ==
    IF m.sub_process = 0
    THEN m
    ELSE [sub_process |-> 0,
          procs |-> IF m.procs[m.sub_process] = "running"
                    THEN [m.procs EXCEPT ![m.sub_process] = "exited"]
                    ELSE m.procs]

\* lines 163-165: restart()
restart(m) == start(stop(m))

\* lines 167-170: health_check(): restart when the tracked subprocess exited
health_check(m) ==
    IF m.sub_process # 0 /\ m.procs[m.sub_process] # "running"
    THEN restart(m)
    ELSE m

\* the server becomes m
Becomes(m) ==
    /\ Len(m.procs) <= MaxSpawns
    /\ sub_process' = m.sub_process
    /\ procs' = m.procs

\* the call named is the last one
Logged(name) == [calls |-> mtx_log.calls + 1, last |-> name]

MtxStart ==
    /\ mtx_log.calls < MaxMtxCalls
    /\ Becomes(start(Server))
    /\ mtx_log' = Logged("start")
    /\ UNCHANGED mtx_rest

MtxStop ==
    /\ mtx_log.calls < MaxMtxCalls
    /\ Becomes(stop(Server))
    /\ mtx_log' = Logged("stop")
    /\ UNCHANGED mtx_rest

MtxRestart ==
    /\ mtx_log.calls < MaxMtxCalls
    /\ Becomes(restart(Server))
    /\ mtx_log' = Logged("restart")
    /\ UNCHANGED mtx_rest

MtxHealthCheck ==
    /\ mtx_log.calls < MaxMtxCalls
    /\ Becomes(health_check(Server))
    /\ mtx_log' = Logged("health_check")
    /\ UNCHANGED mtx_rest

\* wyze_bridge.py, lines 57-69: _initialize(): the server is started unless
\* no stream was set up (lines 62-63)
initialize(m, total) == IF total < 1 THEN m ELSE start(m)

\* wyze_bridge.py, lines 71-80: restart() and refresh_cams() of the bridge:
\* mtx.stop(), then _initialize()
BridgeRestart ==
    /\ mtx_log.calls < MaxMtxCalls
    /\ \E total \in 0..1 : Becomes(initialize(stop(Server), total))
    /\ mtx_log' = Logged("bridge_restart")
    /\ UNCHANGED mtx_rest

\* a MediaMTX process exits on its own
MtxExits ==
    /\ \E i \in Alive(procs) : procs' = [procs EXCEPT ![i] = "exited"]
    /\ UNCHANGED <<sub_process, mtx_log, mtx_rest>>

NextMtx ==
    \/ MtxStart
    \/ MtxStop
    \/ MtxRestart
    \/ MtxHealthCheck
    \/ BridgeRestart
    \/ MtxExits

SpecMtx == InitMtx /\ [][NextMtx]_vars

\* ------------------------------------------------- the stream options
\* wyze_stream_options.py, lines 4-16; wyze_bridge.py, lines 82-126;
\* mtx_server.py, lines 123-130. Of the options, record, reconnect and
\* substream are kept; quality and audio take no part in what is registered.

\* what setting up the streams leaves alone
opt_rest == <<old_vars, opt_others>>

\* what the environment can say of a camera: RECORD_<cam>, a livestream
\* service for it, SUBSTREAM_<cam>, SUB_RECORD_<cam>
CamEnvs == [record : BOOLEAN, live : BOOLEAN, substream : BOOLEAN, sub_record : BOOLEAN]

\* the bridge was constructed; config.py, line 21: ON_DEMAND comes from the
\* environment, like the settings of each camera
InitOpt ==
    /\ OldOff
    /\ OptOthersOff
    /\ on_demand \in BOOLEAN
    /\ cam_env \in [Cams -> CamEnvs]
    /\ stream_list = {}
    /\ mtx_paths = [i \in StreamIds |-> ""]
    /\ opt_log = 0

\* wyze_stream_options.py, lines 14-16: __post_init__
post_init(o) == IF o.record THEN [o EXCEPT !.reconnect = TRUE] ELSE o

\* lines 4-16: the constructor the dataclass generates, for a main stream
WyzeStreamOptions(record, reconnect) ==
    post_init([record |-> record, reconnect |-> reconnect, substream |-> FALSE])

\* wyze_bridge.py, line 122: dataclasses.replace(options, substream=True,
\* record=record) constructs the options anew, __post_init__ included
replace(o, record) == post_init([o EXCEPT !.substream = TRUE, !.record = record])

\* mtx_server.py, lines 123-130: add_path(uri, on_demand)
add_path(ps, id, od) ==
    [ps EXCEPT ![id] = IF od THEN "on_demand" ELSE "always"]

\* wyze_bridge.py, lines 89-94: the options of the main stream of cam
MainOptions(cam) ==
    WyzeStreamOptions(cam_env[cam].record, (~on_demand) \/ cam_env[cam].live)

\* lines 120-122: the options of the substream of cam
SubOptions(cam) == replace(MainOptions(cam), cam_env[cam].sub_record)

\* lines 86-104 and 115-126: what one camera adds to the streams
StreamsOf(cam) ==
    {[id |-> [cam |-> cam, sub |-> FALSE], options |-> MainOptions(cam)]}
        \cup (IF cam_env[cam].substream
              THEN {[id |-> [cam |-> cam, sub |-> TRUE], options |-> SubOptions(cam)]}
              ELSE {})

\* line 98 and line 125: how the paths of one camera are registered; both
\* calls pass "not options.reconnect" with the options of the main stream
PathsOf(ps, cam) ==
    LET main == add_path(ps, [cam |-> cam, sub |-> FALSE], ~MainOptions(cam).reconnect)
    IN  IF cam_env[cam].substream
        THEN add_path(main, [cam |-> cam, sub |-> TRUE], ~MainOptions(cam).reconnect)
        ELSE main

RECURSIVE PathsOfAll(_, _)
PathsOfAll(ps, cams) ==
    IF cams = {}
    THEN ps
    ELSE LET cam == CHOOSE c \in cams : TRUE
         IN  PathsOfAll(PathsOf(ps, cam), cams \ {cam})

\* wyze_bridge.py, lines 82-104: setup_streams() for the cameras the filter
\* lets through
SetupStreams ==
    /\ opt_log < MaxOps
    /\ \E cams \in SUBSET Cams :
          /\ stream_list' = stream_list \cup UNION {StreamsOf(c) : c \in cams}
          /\ mtx_paths' = PathsOfAll(mtx_paths, cams)
    /\ opt_log' = opt_log + 1
    /\ UNCHANGED <<on_demand, cam_env, opt_rest>>

\* wyze_bridge.py, lines 71-74: restart(): streams.stop_all(), after which
\* the streams are set up again
StopAll ==
    /\ stream_list # {}
    /\ stream_list' = {}
    /\ UNCHANGED <<on_demand, cam_env, mtx_paths, opt_log, opt_rest>>

NextOpt ==
    \/ SetupStreams
    \/ StopAll

SpecOpt == InitOpt /\ [][NextOpt]_vars

TypeOK ==
    /\ state \in States
    /\ camera \in Cameras
    /\ session_id \in Handles \cup {None}
    /\ av_chan_id \in Handles \cup {None}
    /\ exc_code \in ErrCodes \cup {0}
    /\ have_key_frame \in BOOLEAN
    /\ late \in BOOLEAN
    /\ pull \in Pulls \cup {""}
    /\ frame \in Frames
    /\ renegs \in 0..1
    /\ preferred_frame_size \in FrameSizes
    /\ ignore_res \in FrameSizes \cup {None}

\* ----------------------------------------------------------------- claims
\* the method f has returned (or its exception has left it)
Returned(f) == pc = "idle" /\ fn = f

ForwardChain ==
    {<<DISCONNECTED, IOTC_CONNECTING>>, <<IOTC_CONNECTING, AV_CONNECTING>>,
     <<AV_CONNECTING, CONNECTED>>, <<CONNECTED, AUTHENTICATING>>,
     <<AUTHENTICATING, AUTHENTICATION_SUCCEEDED>>}

InProgress == {IOTC_CONNECTING, AV_CONNECTING, CONNECTED, AUTHENTICATING}

DeclaredEdge ==
    \/ <<state, state'>> \in ForwardChain
    \/ state \in InProgress /\ state' \in {CONNECTING_FAILED, AUTHENTICATION_FAILED}
    \/ state' = DISCONNECTED /\ pc = "d_state"

\* C1: every change of session.state, the intermediate ones inside a call
\* included, follows an edge of the declared graph: the forward chain, a
\* step from an in-progress state to a failure state, or a step to
\* DISCONNECTED made by _disconnect().
C1_DeclaredEdgesOnly == [][state' # state => DeclaredEdge]_vars

\* C2: AUTHENTICATION_SUCCEEDED is entered only from AUTHENTICATING and by
\* _auth, AUTHENTICATING only from CONNECTED, and CONNECTED only from
\* AV_CONNECTING by a _connect() in which nothing has failed.
C2_SucceededOnlyViaAuthenticating ==
    [][/\ (state' = AUTHENTICATION_SUCCEEDED /\ state # AUTHENTICATION_SUCCEEDED)
            => (state = AUTHENTICATING /\ fn = "_auth")
       /\ (state' = AUTHENTICATING /\ state # AUTHENTICATING)
            => state = CONNECTED
       /\ (state' = CONNECTED /\ state # CONNECTED)
            => (state = AV_CONNECTING /\ fn = "_connect" /\ exc = "none"
                /\ Held(session_id) /\ Held(av_chan_id))]_vars

C2_Witness == Returned("_auth") /\ state = AUTHENTICATION_SUCCEEDED

\* C3: when _connect() exits with an error, whatever was raised inside it,
\* the state is CONNECTING_FAILED and neither handle is still held.
C3_ConnectFailureCleansUp ==
    (Returned("_connect") /\ exc # "none")
        => (state = CONNECTING_FAILED /\ ~Held(session_id) /\ ~Held(av_chan_id))

AuthErrors ==
    {"TutkError", "ValueError:CONNECT_REQUEST_FAILED", "ValueError:AUTH_FAILED",
     "ValueError:AUTH_RESPONSE_NONE", "ValueError:ENR_AUTH_FAILED"}

\* C4: when _auth() exits with one of its errors, the state is
\* AUTHENTICATION_FAILED, the AV channel has been stopped and the transport
\* session closed, and both handles are reset.
C4_AuthFailureReleases ==
    (Returned("_auth") /\ exc \in AuthErrors)
        => /\ state = AUTHENTICATION_FAILED
           /\ ~Held(session_id) /\ ~Held(av_chan_id)
           /\ (Held(entry.av_chan_id) => Called("av_client_stop"))
           /\ (Held(entry.session_id) => Called("iotc_session_close"))

\* C5: between the calls on a session, a channel handle is held only in
\* CONNECTED, AUTHENTICATING or AUTHENTICATION_SUCCEEDED.
C5_ChannelOnlyWhileConnected ==
    (pc = "idle" /\ Held(av_chan_id))
        => state \in {CONNECTED, AUTHENTICATING, AUTHENTICATION_SUCCEEDED}

\* the first transport call of the running _connect() was get-session-id
\* and it returned a negative handle
NegativeSessionId ==
    /\ fn = "_connect"
    /\ Len(calls) >= 1
    /\ calls[1].fn = "iotc_get_session_id"
    /\ calls[1].ret < 0

\* C6: when get-session-id returns a negative handle, _connect() raises a
\* transport error carrying that code, makes neither the connect nor the
\* AV-start call, holds no channel handle, and ends in CONNECTING_FAILED.
C6_NegativeSessionId ==
    NegativeSessionId
        => /\ exc = "TutkError" /\ exc_code = calls[1].ret
           /\ ~Called("iotc_connect_by_uid_parallel")
           /\ ~Called("iotc_connect_by_uid_ex")
           /\ ~Called("av_client_start")
           /\ (pc \notin {"c_except", "d_begin"} => ~Held(av_chan_id))
           /\ (pc = "idle" => state = CONNECTING_FAILED)

C6_Witness == NegativeSessionId /\ pc = "idle"

\* C7: an auth reply with connectionRes "2" makes _auth() raise
\* ENR_AUTH_FAILED, never send the resolution command, and end in
\* AUTHENTICATION_FAILED.
C7_EnrMismatch ==
    (fn = "_auth" /\ inp.connectionRes = "2")
        => /\ exc = "ValueError:ENR_AUTH_FAILED"
           /\ ~Called("SetResolvingBit")
           /\ (pc = "idle" => state = AUTHENTICATION_FAILED)

C7_Witness == Returned("_auth") /\ inp.connectionRes = "2"

AllRepliesGood ==
    /\ inp.challenge = "reply"
    /\ inp.response = "reply"
    /\ inp.auth = "reply"
    /\ inp.connectionRes = "1"
    /\ inp.resolution \in {"reply", "empty"}

\* C8: an _auth() started in CONNECTED ends in AUTHENTICATION_SUCCEEDED
\* exactly when the challenge reply, the computed response and the auth reply
\* are non-empty, connectionRes is "1" and the resolution round-trip did not
\* raise; otherwise it ends in AUTHENTICATION_FAILED, with ENR_AUTH_FAILED
\* for "2" and AUTH_FAILED for any other value.
C8_AuthOutcome ==
    (Returned("_auth") /\ entry.state = CONNECTED)
        => /\ (state = AUTHENTICATION_SUCCEEDED) <=> AllRepliesGood
           /\ (state = AUTHENTICATION_SUCCEEDED) <=> (exc = "none")
           /\ state \in {AUTHENTICATION_SUCCEEDED, AUTHENTICATION_FAILED}
           /\ inp.connectionRes = "2" => exc = "ValueError:ENR_AUTH_FAILED"
           /\ inp.connectionRes \in ConnectionRes \ {"1", "2"}
                 => exc = "ValueError:AUTH_FAILED"

C8_Witness ==
    Returned("_auth") /\ entry.state = CONNECTED /\ inp.connectionRes = "0"

\* C9: _auth() called in a state other than CONNECTED sends nothing and
\* changes neither state nor handles: it returns at once from
\* CONNECTING_FAILED and fails its assertion from every other state.
C9_AuthOnlyFromConnected ==
    (fn = "_auth" /\ entry.state # CONNECTED)
        => /\ calls = <<>>
           /\ state = entry.state
           /\ session_id = entry.session_id
           /\ av_chan_id = entry.av_chan_id
           /\ pc \in {"a_begin", "idle"}
           /\ (pc = "idle" =>
                 exc = IF entry.state = CONNECTING_FAILED THEN "none"
                                                          ELSE "AssertionError")

C9_Witness ==
    /\ Returned("_auth")
    /\ entry.state = AUTHENTICATION_SUCCEEDED
    /\ Held(entry.av_chan_id)

\* how often the running _disconnect() has made the transport call name
DisconnectCalls(name) ==
    Cardinality({i \in (d_from + 1)..Len(calls) : calls[i].fn = name})

\* C10: _disconnect(), whatever the state and the handles it was entered
\* with, ends with state DISCONNECTED and both handles None, having stopped
\* the AV channel exactly when a channel handle was held and closed the
\* transport session exactly when a session handle was held.
C10_DisconnectPost ==
    pc = "d_return"
        => /\ state = DISCONNECTED
           /\ session_id = None
           /\ av_chan_id = None
           /\ DisconnectCalls("av_client_stop") =
                 (IF d_entry.av_chan_id # None THEN 1 ELSE 0)
           /\ DisconnectCalls("iotc_session_close") =
                 (IF d_entry.session_id # None THEN 1 ELSE 0)

C10_Witness ==
    /\ pc = "d_return"
    /\ d_entry.state = AUTHENTICATING
    /\ d_entry.av_chan_id # None
    /\ d_entry.session_id # None

\* C11: a _disconnect() called right after a _disconnect() makes no transport
\* call and leaves the session as the first call left it: state DISCONNECTED
\* and both handles None.
C11_SecondDisconnectNoOp ==
    (fn = "_disconnect" /\ prev_fn = "_disconnect")
        => /\ calls = <<>>
           /\ entry = [state |-> DISCONNECTED, session_id |-> None,
                       av_chan_id |-> None]
           /\ pc = "idle" => Snapshot = entry

C11_Witness ==
    /\ Returned("_disconnect")
    /\ prev_fn = "_disconnect"

\* C12: at most one control-channel listener of the session is live at any
\* time, whatever the threads that use the session do.
C12_OneListener == listeners <= 1

\* C13: when recv_bridge_data is ended by a transport error other than
\* not-ready, incomplete-frame and lost-frame, the error reaches the caller
\* and the session state is CONNECTING_FAILED.
C13_VideoHardError ==
    (Returned("recv_bridge_data") /\ pull = "hard")
        => (exc = "TutkError" /\ state = CONNECTING_FAILED)

C15_SoftPullsRetried ==
    [][(pc \in {"v_recv", "u_recv"}
          /\ pull' \in {"empty", "noready", "incomplete", "lost"})
        => /\ pc' = (IF pc = "v_recv" THEN "v_loop" ELSE "u_loop")
           /\ exc' = "none"
           /\ state' = state
           /\ have_key_frame' = have_key_frame]_vars

C15_Witness ==
    /\ pc \in {"v_loop", "u_loop"}
    /\ pull = "lost"
    /\ state = AUTHENTICATION_SUCCEEDED

\* C16: recv_bridge_data raises the timing failure only when a keyframe has
\* been received from the camera; past the connect timeout without any
\* keyframe it only renegotiates the resolution and goes on pulling.
C16_TimingFailureOnlyAfterKeyframe ==
    (fn = "recv_bridge_data" /\ exc = "RuntimeError") => seen_key_frame

\* C17: a pulled video frame whose size is not in the accepted set is never
\* yielded; it makes one renegotiation request when a keyframe was accepted
\* since the last such frame and none otherwise, and, unless the transport
\* fails the request itself, the loop goes on without raising.
Accepted ==
    {preferred_frame_size,
     IF ignore_res # None THEN ignore_res
     ELSE IF preferred_frame_size >= 3 THEN preferred_frame_size + 1
     ELSE preferred_frame_size + 3}

C17_BadSizeFrame ==
    [][(pc = "v_recv" /\ pull' = "frame" /\ frame'.frame_size \notin Accepted)
        => /\ pc' # "v_yield"
           /\ renegs' = (IF key_since THEN 1 ELSE 0)
           /\ ~key_since'
           /\ exc' # "TutkError"
                 => (pc' = "v_loop" /\ exc' = "none" /\ state' = state)]_vars

C17_Witness ==
    /\ pc = "v_loop"
    /\ pull = "frame"
    /\ frame.frame_size \notin Accepted
    /\ renegs = 1
    /\ seen_key_frame

\* the timestamp of a frame, timestamp seconds and timestamp_ms milliseconds
TrueStamp(f) == (f.timestamp - BogusBefore) * 1000 + f.timestamp_ms

\* C18: a video frame stamped at or after the bogus threshold causes one
\* buffer clear when the time read minus its timestamp exceeds 5 s, and none
\* when it does not; a frame stamped before the threshold causes no clear, no
\* flush and no accumulation.
C18_VideoClear ==
    eff.op = "video"
        => IF eff.frame.timestamp < BogusBefore
           THEN eff.clears = 0 /\ eff.flushes = 0 /\ eff.added = 0
           ELSE eff.clears = (IF eff.at - TrueStamp(eff.frame) > 5000 THEN 1 ELSE 0)

\* C19: an audio frame stamped at or after the bogus threshold, with gap its
\* timestamp minus frame_ts, causes a buffer clear iff |gap| > 5 s, a flush of
\* the audio pipe iff gap < -1 s, the accumulation of gap iff gap > 0 and a
\* sleep of half the gap iff gap > 1 s; a frame stamped before the threshold
\* causes nothing.
C19_AudioRemedies ==
    eff.op = "audio"
        => IF eff.frame.timestamp < BogusBefore
           THEN /\ eff.clears = 0
                /\ eff.flushes = 0
                /\ eff.added = 0
                /\ eff.slept = 0
           ELSE LET gap == TrueStamp(eff.frame) - eff.ref
                IN  /\ eff.clears = (IF Abs(gap) > 5000 THEN 1 ELSE 0)
                    /\ eff.flushes = (IF gap < -1000 THEN 1 ELSE 0)
                    /\ eff.added = (IF gap > 0 THEN gap * 1000 ELSE 0)
                    /\ eff.slept = (IF gap > 1000 THEN gap * 500 ELSE 0)

C21_SleepBufferNonNegative ==
    /\ [](sleep_buffer >= 0)
    /\ [][(eff'.n # eff.n /\ eff'.op = "sleep" /\ ~low_latency
            /\ frame_ts # FrameTsInit /\ sleep_buffer # 0)
          => sleep_buffer' = Max(sleep_buffer - Period(preferred_frame_rate), 0)]_vars

\* a pacing read has lowered to 0 an accumulator a frame had raised
C21_Witness ==
    /\ eff.op = "sleep"
    /\ eff.added < 0
    /\ 0 - eff.added < Period(preferred_frame_rate)
    /\ sleep_buffer = 0

\* C22: over any sequence of video frames, with valid or bogus timestamps in
\* any order, a video frame that clears no buffer never lowers frame_ts.
C22_FrameTsMonotonic ==
    [][(eff'.n # eff.n /\ eff'.op = "video" /\ eff'.clears = 0)
          => frame_ts' >= frame_ts]_vars

\* C23: the video loop and the audio loop share no mutation: no field of the
\* session is written by both loops, and _sleep_buffer always holds every
\* update made to it (no interleaving loses or overwrites one).
C23_NoSharedMutation ==
    /\ \A f \in Fields : Cardinality(writers[f]) <= 1
    /\ sleep_buffer = applied

\* C24: each loop evaluates the continuation predicate (state is
\* AUTHENTICATION_SUCCEEDED and stream_state > 1) before every iteration and
\* starts the iteration only when it is true; a loop yields at most one frame
\* after the predicate became false; and when the predicate is false from
\* some time on, both loops eventually end.
C24_CooperativeStop ==
    /\ [][\A l \in Loops :
            (loop'[l] # loop[l] /\ loop'[l] \in {"v_first_frame", "u_recv"})
               => (loop[l] \in {"v_loop", "u_loop"} /\ Wanted(stream_state))]_vars
    /\ [](\A l \in Loops : after[l] <= 1)
    /\ (<>[](~Wanted(stream_state))) => <>[](\A l \in Loops : loop[l] = "done")

\* both loops have ended after the predicate became false, each having
\* yielded one more frame
C24_Witness ==
    /\ stream_state <= 1
    /\ \A l \in Loops : loop[l] = "done" /\ after[l] = 1

\* the bytes of seq are the first bytes of frames, frame after frame
FramePrefixes(seq) ==
    \A i \in 1..Len(seq) :
       \/ seq[i][2] = 1 /\ (i > 1 => seq[i - 1][1] < seq[i][1])
       \/ i > 1 /\ seq[i - 1] = <<seq[i][1], seq[i][2] - 1>>

\* C25: the producer loop of recv_audio_pipe never waits in a write; a frame
\* the pipe has no room for is dropped, whole or but for its first bytes,
\* without an error, and the loop goes on to the next frame; what readers
\* have read is a prefix of what was written, which is made of the first
\* bytes of the frames in their order.
C25_WriteNeverBlocks ==
    /\ [](sink # "blocked")
    /\ [][(sink = "write" /\ sink' # sink /\ reader # "closed" /\ sink_exc' = "none"
            /\ PipeCap - Len(data) < frame_len)
          => /\ sink' = "next"
             /\ Len(written') - Len(written) < frame_len
             /\ dropped' = dropped + frame_len - (Len(written') - Len(written))]_vars
    /\ [](written = taken \o data /\ FramePrefixes(written))

\* a frame was dropped for lack of room, the loop went on, and a reader has
\* read bytes
C25_Witness ==
    /\ sink = "next"
    /\ offered >= 2
    /\ dropped > 0
    /\ taken # <<>>

C27_AccountReadOnly == phone_id = PhoneId

\* the i-th vendor call completes an initialization of the runtime
Inited(i) == vendor[i].fn = "av_initialize" /\ vendor[i].ok

\* the i-th vendor call completes a deinitialization of the runtime
Deinited(i) == vendor[i].fn = "iotc_deinitialize"

\* the last initialization or deinitialization before the i-th vendor call,
\* 0 if there is none
LastBefore(i) ==
    LET past == {j \in 1..(i - 1) : Inited(j) \/ Deinited(j)}
    IN  IF past = {} THEN 0 ELSE CHOOSE j \in past : \A k \in past : k <= j

\* the vendor runtime is initialized
Live ==
    LET last == LastBefore(Len(vendor) + 1)
    IN  last # 0 /\ Inited(last)

\* C28: over any sequence of initialize() and deinitialize() calls the vendor
\* runtime is initialized and deinitialized in turn, starting with an
\* initialization; initd is set exactly while the vendor runtime is
\* initialized (not after a failed initialize(), not after deinitialize());
\* and initialize() initializes the vendor runtime whenever it is not.
C28_RuntimeGuard ==
    /\ [](\A i \in 1..Len(vendor) :
            /\ Inited(i) => (LastBefore(i) = 0 \/ Deinited(LastBefore(i)))
            /\ Deinited(i) => (LastBefore(i) # 0 /\ Inited(LastBefore(i))))
    /\ [](initd <=> Live)
    /\ [][(Initialize /\ ~Live) => vendor' # vendor]_vars

\* C29: a newly constructed bridge has running = false, and whenever health()
\* was called, before run, while running or after stop, it returned exactly
\* the fields wyze_authed, mqtt_connected, total_cameras and api_only_mode,
\* with api_only_mode true, wyze_authed true exactly when the api had an auth
\* object with an access token, and mqtt_connected false when the bridge had
\* no MQTT client
C29_Health ==
    /\ phase = "new" => ~running
    /\ health.n > 0 =>
        /\ DOMAIN health.result = {"wyze_authed", "mqtt_connected",
                                   "total_cameras", "api_only_mode"}
        /\ health.result.api_only_mode = TRUE
        /\ health.result.wyze_authed = (health.auth = "token")
        /\ health.client = "none" => health.result.mqtt_connected = FALSE
        /\ health.result.total_cameras \in Nat

\* health() was called after stop(), with an auth object that has no access
\* token and a client that exists
C29_Witness ==
    /\ health.n > 0
    /\ health.phase = "stopped"
    /\ health.auth = "no_token"
    /\ health.client = "disconnected"
    /\ ~health.result.wyze_authed
    /\ ~running

\* what is left of v between its first and its last character that is no
\* quote and no whitespace
Trimmed(v) ==
    LET keep == {i \in 1..Len(v) : v[i] \notin {"'", "\"", " ", "\n", "\t", "\r"}}
    IN  IF keep = {}
        THEN <<>>
        ELSE SubSeq(v, CHOOSE i \in keep : \A j \in keep : i <= j,
                       CHOOSE i \in keep : \A j \in keep : j <= i)

\* v is the word w in some letter case
IsWord(v, w) == Len(v) = Len(w) /\ \A i \in 1..Len(w) : Lower(<<v[i]>>) = <<w[i]>>

EndedFailing(l) == ended[l] \in {"return", "finally"}

\* C31: when recv_bridge_data returns normally, or recv_audio_data ends for
\* any reason, the state is CONNECTING_FAILED afterwards and stays so while
\* the loops run; once a loop has ended that way, the continuation check of
\* the other loop fails at its next iteration, and the other loop ends too
C31_LoopEndStopsOther ==
    /\ [][\A l \in Loops :
            (~EndedFailing(l) /\ EndedFailing(l)') => state' = CONNECTING_FAILED]_vars
    /\ []((\E l \in Loops : EndedFailing(l)) => state = CONNECTING_FAILED)
    /\ [][\A l \in Loops :
            ((\E k \in Loops \ {l} : EndedFailing(k))
                 /\ loop[l] \in {"v_loop", "u_loop"} /\ loop'[l] # loop[l])
               => loop'[l] \in {"v_end", "u_finally"}]_vars
    /\ \A l \in Loops :
          EndedFailing(l) ~> (\A k \in Loops : loop[k] = "done")

\* the consumer closed the audio sequence while streaming was still wanted by
\* the owner, and the video loop then left through its continuation check
C31_Witness ==
    /\ stream_state > 1
    /\ ended["audio"] = "finally"
    /\ ended["video"] = "return"
    /\ state = CONNECTING_FAILED

\* C32: after _disconnect() has returned, the state is DISCONNECTED and both
\* handles are null, whatever the loops of the session do while they finish
C32_DisconnectedStays ==
    Returned("_disconnect") =>
        /\ state = DISCONNECTED
        /\ session_id = None
        /\ av_chan_id = None

\* C33: with the same positive gap in every iteration and a read that lowers
\* the accumulator by one period, the accumulator stays bounded, also for a
\* gap above the period: it ends an iteration no higher than it ended the
\* one before (for this recurrence the two are the same); and once the gap is
\* back to 0 every read lowers it until it is 0
C33_AccumulatorBounded ==
    /\ []((~low_latency /\ ~drift.settled /\ drift.n >= 2) => drift.end <= drift.prev)
    /\ [][(~low_latency /\ drift.settled /\ drift.at = "read" /\ drift'.at = "frame"
              /\ sleep_buffer > 0)
            => sleep_buffer' < sleep_buffer]_vars

\* the positions in the log of the calls named n
At(n) == {i \in 1..Len(calls) : calls[i].fn = n}

\* every call named b comes after a call named a
ComesAfter(a, b) == \A j \in At(b) : \E i \in At(a) : i < j

\* the three control messages of _auth
AuthMessages == {"K10000ConnectRequest", "ConnectAuth", "SetResolvingBit"}

\* C34: within one _auth() the connect-challenge, the challenge-response and
\* the resolution-set are sent once each and in this order, inside one
\* control-channel scope, each only after the reply before it was received
\* and accepted; the camera metadata is ingested before the resolution-set is
\* sent; and the state becomes AUTHENTICATION_SUCCEEDED only when the
\* resolution-set round-trip has returned
C34_AuthOrder ==
    /\ [](fn = "_auth" =>
            /\ \A n \in AuthMessages \cup {"start_listening", "stop_listening",
                                           "set_camera_info"} :
                  Cardinality(At(n)) <= 1
            /\ ComesAfter("start_listening", "K10000ConnectRequest")
            /\ ComesAfter("K10000ConnectRequest", "ConnectAuth")
            /\ ComesAfter("ConnectAuth", "set_camera_info")
            /\ ComesAfter("set_camera_info", "SetResolvingBit")
            /\ \A n \in AuthMessages : \A i \in At(n), j \in At("stop_listening") : i < j
            /\ At("ConnectAuth") # {} => inp.challenge = "reply" /\ inp.response = "reply"
            /\ At("SetResolvingBit") # {} => inp.auth = "reply" /\ inp.connectionRes = "1")
    /\ [][(state # AUTHENTICATION_SUCCEEDED /\ state' = AUTHENTICATION_SUCCEEDED)
            => /\ fn = "_auth"
               /\ \E i \in 1..Len(calls') : calls'[i].fn = "SetResolvingBit"
               /\ inp'.resolution \in {"reply", "empty"}]_vars

\* an authentication has gone through all three round-trips, the last one
\* with an empty result, and returned
C34_Witness ==
    /\ Returned("_auth")
    /\ state = AUTHENTICATION_SUCCEEDED
    /\ inp.resolution = "empty"
    /\ [i \in 1..Len(calls) |-> calls[i].fn] =
          <<"start_listening", "K10000ConnectRequest", "ConnectAuth",
            "set_camera_info", "SetResolvingBit", "stop_listening">>

\* C35: whatever purge_old calls are made, at most one purge thread per
\* base_path runs at any time
C35_OnePurgePerPath ==
    \A p \in Paths : Cardinality({id \in AlivePurges : purge_threads[id].path = p}) <= 1

\* C36: when wait_for_purges() returns, every purge thread that was started
\* and had not finished has finished or was joined for its timeout, and the
\* registry of running purges is empty
C36_WaitJoinsAll ==
    [][purge_log'.waits > purge_log.waits
         => /\ \A id \in AlivePurges :
                  ~purge_threads'[id].alive \/ id \in purge_log'.joined
            /\ \A p \in Paths : purges_running'[p] = None]_vars

\* the bytes the messages of sent make on the pipe
RECURSIVE Wire(_)
Wire(sent) ==
    IF sent = <<>> THEN <<>> ELSE Head(sent) \o <<"!", "\n">> \o Wire(Tail(sent))

\* the positions of the "!" among the first c bytes written
BangsIn(c) == {i \in 1..c : Wire(event_log.sent)[i] = "!"}

\* the messages that are complete within the first c bytes written
CompleteIn(c) == SubSeq(event_log.sent, 1, Cardinality(BangsIn(c)))

\* what follows the last "!" within the first c bytes written, without the
\* whitespace around it
PartialIn(c) ==
    LET from == IF BangsIn(c) = {} THEN 0
                ELSE CHOOSE i \in BangsIn(c) : \A j \in BangsIn(c) : j <= i
    IN  StripSpace(SubSeq(Wire(event_log.sent), from + 1, c))

C38_FailureLosesNothing ==
    [][(event_log'.reads > event_log.reads
          /\ \E i \in (Len(CompleteIn(event_log.read)) + 1)..Len(CompleteIn(event_log'.read)) :
                Handling(event_log.sent[i]) # "ok")
         => /\ dispatched' = CompleteIn(event_log'.read)
            /\ event_buf' = PartialIn(event_log'.read)]_vars

\* a call on the server was made in this step
MtxCalled(name) == mtx_log'.calls > mtx_log.calls /\ mtx_log'.last = name

\* C39: at most one MediaMTX process runs, and it is the tracked one; start()
\* with a subprocess tracked spawns nothing; stop() leaves no subprocess tracked
\* and the one that was tracked has exited; health_check() restarts, which
\* tracks a new running process, exactly when the tracked subprocess has
\* exited, and changes nothing otherwise
C39_OneServer ==
    /\ [](/\ Cardinality(Alive(procs)) <= 1
          /\ Alive(procs) \subseteq {sub_process})
    /\ [][/\ (MtxCalled("start") /\ sub_process # 0)
                => UNCHANGED <<sub_process, procs>>
          /\ MtxCalled("stop")
                => /\ sub_process' = 0
                   /\ sub_process # 0 => procs'[sub_process] = "exited"
                   /\ Len(procs') = Len(procs)
          /\ (MtxCalled("health_check") /\ sub_process # 0 /\ procs[sub_process] = "exited")
                => /\ sub_process' = Len(procs) + 1
                   /\ procs' = Append(procs, "running")
          /\ (MtxCalled("health_check") /\ (sub_process = 0 \/ procs[sub_process] = "running"))
                => UNCHANGED <<sub_process, procs>>]_vars

\* a health check has replaced a server that exited, after a restart had
\* replaced a running one
C39_Witness ==
    /\ mtx_log.last = "health_check"
    /\ Len(procs) = 3
    /\ sub_process = 3
    /\ Alive(procs) = {3}

\* C40: every stream added whose options have record set has reconnect set
\* and its path is not registered as an on-demand path, main stream or
\* substream, whatever ON_DEMAND and the record setting of the main stream
C40_RecordNeverOnDemand ==
    \A s \in stream_list :
        s.options.record => /\ s.options.reconnect
                            /\ mtx_paths[s.id] # "on_demand"

====
